---- MODULE Spec2Model ----
(***************************************************************************)
(* Model of the text-extraction core of murodjon05/text-extraction:       *)
(*   - the format classifier (utils/fileUtils: getFileExtension,          *)
(*     getFileCategory, EXTENSION_MAP),                                    *)
(*   - the orchestrator extractText and its strategies                     *)
(*     (services/extractors.ts).                                           *)
(*                                                                         *)
(* Strings that the code inspects character by character (file names,     *)
(* file contents, page text) are sequences of one-character strings.      *)
(* result.text is a sequence of chunks, each a non-empty string, so that   *)
(* text.length > 0 is Len(text) > 0; a literal the code inserts as a whole *)
(* (a page marker, a sentinel) is one chunk.  Messages pushed to warnings  *)
(* and errors are strings.                                                 *)
(***************************************************************************)
EXTENDS Integers, Sequences, FiniteSets, TLC

VARIABLES
    cName,      \* classifier run: the file name given to getFileCategory
    cExt,       \* classifier run: result of getFileExtension
    cCategory,  \* classifier run: result of getFileCategory
    cDone,      \* classifier run: the call has returned
    file,       \* extractText: the File argument
    pc,         \* extractText: position of the call
    result,     \* extractText: the ExtractionResult being built
    thrown,     \* extractText: the fault travelling to a catch block
    pdfTask,    \* extractPDF: state of the pdf.js loading task / document
    timer,      \* extractPDF: state of the 30 s setTimeout
    numPages,   \* extractPDF: pdf.numPages of the loaded document
    pageIdx,    \* extractPDF: loop variable i
    textParts,  \* extractPDF: local textParts
    pageEnv,    \* extractPDF: what pdf.js answered for each page so far
    answer,     \* extractText: what JSZip or JSON.parse answered in this call
    calls,      \* concurrent calls of extractText: the state of each call
    app,        \* App: the results list, the processing queue and the calls in flight
    sw          \* sw.js and OfflineModeToggle: the caches, the messages and the toggle

vars == <<cName, cExt, cCategory, cDone, file, pc, result, thrown,
          pdfTask, timer, numPages, pageIdx, textParts, pageEnv, answer, calls, app, sw>>

classifyVars == <<cName, cExt, cCategory, cDone>>
pdfVars == <<pdfTask, timer, numPages, pageIdx, textParts, pageEnv>>
extractVars == <<file, pc, result, thrown, pdfVars, answer>>

\* no concurrent call is running
NoCalls == <<>>

\* the App component is not mounted
NoApp == <<>>

\* no service worker is registered
NoWorker == <<>>

(***************************************************************************)
(* Bounds of the model.                                                    *)
(***************************************************************************)
MaxNameLen == 3     \* generated file names have at most this many characters
MaxPages == 2       \* a loaded PDF has 1..MaxPages pages
MaxElapsed == 1     \* the measured processing time is 0..MaxElapsed ms

(***************************************************************************)
(* Characters and strings.                                                 *)
(***************************************************************************)
UpperChars == <<"A","B","C","D","E","F","G","H","I","J","K","L","M",
                "N","O","P","Q","R","S","T","U","V","W","X","Y","Z">>
LowerChars == <<"a","b","c","d","e","f","g","h","i","j","k","l","m",
                "n","o","p","q","r","s","t","u","v","w","x","y","z">>

\* String.prototype.toLowerCase / toUpperCase on one character
LowerChar(c) ==
    IF \E i \in 1..26 : UpperChars[i] = c
    THEN LowerChars[CHOOSE i \in 1..26 : UpperChars[i] = c]
    ELSE c

UpperChar(c) ==
    IF \E i \in 1..26 : LowerChars[i] = c
    THEN UpperChars[CHOOSE i \in 1..26 : LowerChars[i] = c]
    ELSE c

toLowerCase(s) == [i \in 1..Len(s) |-> LowerChar(s[i])]
toUpperCase(s) == [i \in 1..Len(s) |-> UpperChar(s[i])]

\* the JavaScript string made of the characters of s
RECURSIVE StrOf(_)
StrOf(s) == IF s = <<>> THEN "" ELSE Head(s) \o StrOf(Tail(s))

\* String.prototype.split('.'): the segments between the dots, in order
RECURSIVE SplitDot(_)
SplitDot(s) ==
    IF \A i \in 1..Len(s) : s[i] # "."
    THEN <<s>>
    ELSE LET d == CHOOSE i \in 1..Len(s) :
                      s[i] = "." /\ \A j \in 1..(i-1) : s[j] # "."
         IN <<SubSeq(s, 1, d - 1)>> \o SplitDot(SubSeq(s, d + 1, Len(s)))

(***************************************************************************)
(* utils/fileUtils: the extension table and the classifier.                *)
(***************************************************************************)
DocumentExts == {"pdf", "doc", "docx", "txt", "md", "markdown", "html", "htm",
                 "rtf", "odt"}
DataExts == {"csv", "xls", "xlsx", "json", "xml", "yaml", "yml", "tsv"}
ImageExts == {"png", "jpg", "jpeg", "webp", "tiff", "tif", "gif", "bmp"}
CodeExts == {"js", "jsx", "ts", "tsx", "py", "java", "c", "cpp", "h", "hpp",
             "cs", "go", "rs", "rb", "php", "swift", "kt", "scala", "r", "sql",
             "sh", "bash", "zsh", "ps1", "vue", "svelte", "lua", "perl", "pl",
             "asm", "vb", "dart", "elm", "ex", "exs", "erl", "clj", "hs", "ml",
             "fs", "scss", "sass", "less", "css", "graphql", "proto",
             "makefile", "dockerfile"}
NotebookExts == {"ipynb"}

EXTENSION_MAP ==
    [e \in DocumentExts \cup DataExts \cup ImageExts \cup CodeExts \cup NotebookExts |->
        IF e \in DocumentExts THEN "document"
        ELSE IF e \in DataExts THEN "data"
        ELSE IF e \in ImageExts THEN "image"
        ELSE IF e \in CodeExts THEN "code"
        ELSE "notebook"]

\* EXTENSION_MAP is an object literal: a lookup that misses the own keys goes
\* to Object.prototype.  An extension is lowercased, so of the prototype's
\* properties only the all-lowercase names can be hit.
ObjectPrototypeKeys == {"constructor", "__proto__"}

\* faulty variant: the last segment also when the name has no "."
getFileExtensionNoDotCheck(fileName) ==
    LET parts == SplitDot(toLowerCase(fileName))
    IN parts[Len(parts)]

getFileExtension(fileName) ==
    LET parts == SplitDot(toLowerCase(fileName))
    IN IF Len(parts) > 1 THEN parts[Len(parts)] ELSE <<>>

\* EXTENSION_MAP[ext]?.category : "undefined" when the entry is undefined or
\* is an object without a category property
MapCategory(ext) ==
    IF StrOf(ext) \in DOMAIN EXTENSION_MAP THEN EXTENSION_MAP[StrOf(ext)]
    ELSE IF StrOf(ext) \in ObjectPrototypeKeys THEN "undefined"
    ELSE "undefined"

getFileCategory(fileName) ==
    LET ext == getFileExtension(fileName)
        category == MapCategory(ext)
    IN IF category = "undefined" THEN "unknown" ELSE category

(***************************************************************************)
(* File names given to the classifier.                                     *)
(***************************************************************************)
\* the README's Supported Formats table, one set per row
ReadmeDocuments ==
    { <<"P", "D", "F">>, <<"D", "O", "C">>, <<"D", "O", "C", "X">>,
      <<"T", "X", "T">>, <<"M", "D">>, <<"H", "T", "M", "L">>,
      <<"R", "T", "F">>, <<"O", "D", "T">> }
ReadmeData ==
    { <<"C", "S", "V">>, <<"X", "L", "S">>, <<"X", "L", "S", "X">>,
      <<"J", "S", "O", "N">>, <<"X", "M", "L">>, <<"Y", "A", "M", "L">>,
      <<"Y", "M", "L">>, <<"T", "S", "V">>, <<"T", "O", "M", "L">> }
ReadmeImages ==
    { <<"P", "N", "G">>, <<"J", "P", "G">>, <<"J", "P", "E", "G">>,
      <<"W", "E", "B", "P">>, <<"T", "I", "F", "F">>, <<"T", "I", "F">>,
      <<"G", "I", "F">>, <<"B", "M", "P">>, <<"I", "C", "O">>,
      <<"S", "V", "G">> }
ReadmeNotebooks == { <<"I", "P", "Y", "N", "B">> }
ReadmeFormats == ReadmeDocuments \cup ReadmeData \cup ReadmeImages \cup ReadmeNotebooks

\* a file of the given format, named as the format is written or lowercased
FormatNames(fmt) == { <<"f", ".">> \o fmt, <<"f", ".">> \o toLowerCase(fmt) }

NameAlphabet == {"c", ".", "H"}
GeneratedNames == UNION { [1..n -> NameAlphabet] : n \in 0..MaxNameLen }

SpecialNames ==
    { <<"c", "o", "n", "s", "t", "r", "u", "c", "t", "o", "r">>,
      <<"a", ".", "c", "o", "n", "s", "t", "r", "u", "c", "t", "o", "r">>,
      <<"a", ".", "_", "_", "p", "r", "o", "t", "o", "_", "_">>,
      <<"M", "a", "k", "e", "f", "i", "l", "e">>,
      <<"a", ".", "m", "a", "k", "e", "f", "i", "l", "e">>,
      <<"R", "E", "A", "D", "M", "E">>,
      <<"a", ".", "z", "i", "p">>,
      <<"a", ".", "t", "a", "r", ".", "g", "z">>,
      <<"a", ".", "p", "d", "f", ".">>,
      <<"a", ".", "t", "x", "t", ".", "P", "d", "F">>,
      <<"p", "d", "f">> }

ClassifyNames ==
    GeneratedNames \cup SpecialNames \cup UNION { FormatNames(fmt) : fmt \in ReadmeFormats }

(***************************************************************************)
(* A run of the classifier alone: one call of getFileExtension and         *)
(* getFileCategory on a name.                                              *)
(***************************************************************************)
\* the value of result before extractText has built one
NoResult ==
    [ fileName |-> <<>>, fileType |-> "", category |-> "unknown",
      status |-> "pending", text |-> <<>>, pages |-> <<>>, confidence |-> <<>>,
      warnings |-> <<>>, errors |-> <<>>, metadata |-> <<>>, processingTime |-> 0 ]

ExtractIdle ==
    /\ file = [name |-> <<>>, content |-> <<>>, lastModified |-> 0]
    /\ pc = "idle"
    /\ result = NoResult
    /\ thrown = <<>>
    /\ pdfTask = "none"
    /\ timer = "unset"
    /\ numPages = 0
    /\ pageIdx = 0
    /\ textParts = <<>>
    /\ pageEnv = <<>>
    /\ answer = <<>>

ClassifyInit ==
    /\ cName \in ClassifyNames
    /\ cExt = <<>>
    /\ cCategory = "pending"
    /\ cDone = FALSE
    /\ ExtractIdle
    /\ calls = NoCalls
    /\ app = NoApp
    /\ sw = NoWorker

Classify ==
    /\ ~cDone
    /\ cExt' = getFileExtension(cName)
    /\ cCategory' = getFileCategory(cName)
    /\ cDone' = TRUE
    /\ UNCHANGED <<cName, extractVars, calls, app, sw>>

ClassifyNext == Classify

SpecClassify == ClassifyInit /\ [][ClassifyNext]_vars

(***************************************************************************)
(* services/extractors.ts: values shared by the strategies.                *)
(***************************************************************************)
None == <<>>            \* an optional field that is undefined
Some(v) == <<v>>        \* an optional field holding v

\* result.metadata[key] = value
SetMeta(m, key, value) == (key :> value) @@ m

\* a thrown value: an Error with a message, or something that is no Error
Faults == { [isError |-> TRUE, message |-> "boom"],
            [isError |-> FALSE, message |-> ""] }

\* error instanceof Error ? error.message : 'Unknown error'
ErrorMessage(fault) == IF fault.isError THEN fault.message ELSE "Unknown error"

\* String.prototype.trim: whitespace removed at both ends
Whitespace == {" ", "\n", "\t", "\r", "\f"}

\* the positions of s whose character is outside the set, in order
PositionsOutside(s, set) ==
    SelectSeq([i \in 1..Len(s) |-> i], LAMBDA i : s[i] \notin set)

TrimStart(s) ==
    LET kept == PositionsOutside(s, Whitespace)
    IN IF kept = <<>> THEN <<>> ELSE SubSeq(s, kept[1], Len(s))

TrimEnd(s) ==
    LET kept == PositionsOutside(s, Whitespace)
    IN IF kept = <<>> THEN <<>> ELSE SubSeq(s, 1, kept[Len(kept)])

Trim(s) == TrimEnd(TrimStart(s))

\* Array.prototype.join(sep) of an array of texts
RECURSIVE Join(_, _)
Join(parts, sep) ==
    IF parts = <<>> THEN <<>>
    ELSE IF Len(parts) = 1 THEN parts[1]
    ELSE parts[1] \o sep \o Join(Tail(parts), sep)

\* new Date(file.lastModified).toISOString() throws a RangeError outside the
\* range of Date, which is 100,000,000 days either side of the epoch
\* (8.64e15 ms).  file.lastModified is counted in days here.
MAX_DATE_DAYS == 100000000
DateValid(days) == -MAX_DATE_DAYS <= days /\ days <= MAX_DATE_DAYS
toISOString(days) == "date:" \o ToString(days)
InvalidTime == [isError |-> TRUE, message |-> "Invalid time value"]

(***************************************************************************)
(* extractText: construction of the result and dispatch.                   *)
(***************************************************************************)
\* the synchronous head of the strategy the switch of extractText (and of
\* extractDocument / extractData) selects: the position of its first await
Route(category, extension) ==
    LET ext == StrOf(extension) IN
    CASE category = "document" ->
            ( CASE ext = "pdf" -> "pdf_read"
                [] ext \in {"docx", "doc"} -> "docx"
                [] ext \in {"txt", "md", "markdown"} -> "plain"
                [] ext \in {"html", "htm"} -> "html"
                [] ext = "rtf" -> "rtf"
                [] OTHER -> "docdefault" )
      [] category = "data" ->
            ( CASE ext \in {"xlsx", "xls"} -> "excel"
                [] ext = "json" -> "json"
                [] OTHER -> "plain" )
      [] category = "image" -> "image"
      [] category = "code" -> "code"
      [] category = "notebook" -> "notebook"
      [] OTHER -> "unknown"

\* warnings pushed before the first await of the selected strategy
HeadWarnings(category, extension) ==
    IF category = "document" /\ StrOf(extension) = "doc"
    THEN <<"DOC format has limited support. For best results, convert to DOCX.">>
    ELSE IF category = "unknown"
    THEN <<"Unknown file format - attempting best-effort text extraction">>
    ELSE <<>>

NewResult(f) ==
    LET extension == getFileExtension(f.name)
    IN [ fileName |-> f.name,
         fileType |-> IF toUpperCase(extension) = <<>> THEN "UNKNOWN"
                      ELSE StrOf(toUpperCase(extension)),
         category |-> getFileCategory(f.name),
         status |-> "processing",
         text |-> <<>>,
         pages |-> None,
         confidence |-> None,
         warnings |-> <<>>,
         errors |-> <<>>,
         metadata |-> [ size |-> Len(f.content),
                        lastModified |-> toISOString(f.lastModified) ],
         processingTime |-> 0 ]

\* lines 13-52 up to the first await
Begin ==
    /\ pc = "start"
    /\ IF DateValid(file.lastModified)
       THEN LET r == NewResult(file)
                ext == getFileExtension(file.name)
            IN /\ result' = [r EXCEPT !.warnings = HeadWarnings(r.category, ext)]
               /\ pc' = Route(r.category, ext)
               /\ thrown' = thrown
       ELSE /\ pc' = "rejected"
            /\ thrown' = Some(InvalidTime)
            /\ result' = result
    /\ UNCHANGED <<file, pdfVars, classifyVars, answer, calls, app, sw>>

\* faulty variant: any error gives the status error
StatusOfErrorsFirst(r) ==
    IF Len(r.errors) > 0 THEN "error"
    ELSE IF Len(r.text) > 0
    THEN (IF Len(r.warnings) > 0 THEN "partial" ELSE "success")
    ELSE r.status

\* faulty variant: warnings ignored
StatusOfIgnoringWarnings(r) ==
    IF Len(r.errors) = 0 /\ Len(r.text) > 0 THEN "success"
    ELSE IF Len(r.errors) > 0 /\ Len(r.text) > 0 THEN "partial"
    ELSE IF Len(r.errors) > 0 THEN "error"
    ELSE r.status

\* lines 54-60: the status derived from errors, warnings and text

StatusOf(r) ==
    IF Len(r.errors) = 0 /\ Len(r.text) > 0
    THEN (IF Len(r.warnings) > 0 THEN "partial" ELSE "success")
    ELSE IF Len(r.errors) > 0 /\ Len(r.text) > 0 THEN "partial"
    ELSE IF Len(r.errors) > 0 THEN "error"
    ELSE r.status

\* the strategy returned: lines 54-60, 66-67
Classified ==
    /\ pc = "classify"
    /\ \E t \in 0..MaxElapsed :
          result' = [result EXCEPT !.status = StatusOf(result),
                                   !.processingTime = t]
    /\ pc' = "done"
    /\ UNCHANGED <<file, thrown, pdfVars, classifyVars, answer, calls, app, sw>>

\* faulty variant: the status is left as it was
CaughtKeepingStatus(r, fault) ==
    [r EXCEPT !.errors = Append(@, "Extraction failed: " \o ErrorMessage(fault))]

\* lines 61-64: what the catch block of extractText does to the result

Caught(r, fault) ==
    [r EXCEPT !.status = "error",
              !.errors = Append(@, "Extraction failed: " \o ErrorMessage(fault))]

\* the strategy threw: lines 61-64, 66-67
CatchEscaped ==
    /\ pc = "catch"
    /\ \E t \in 0..MaxElapsed :
          result' = [Caught(result, thrown[1]) EXCEPT !.processingTime = t]
    /\ pc' = "done"
    /\ UNCHANGED <<file, thrown, pdfVars, classifyVars, answer, calls, app, sw>>

(***************************************************************************)
(* Strategies that pass the decoded text through.                          *)
(***************************************************************************)
\* txt, md, markdown (lines 84-88); csv, tsv, xml, yaml, yml (lines 273-292):
\* result.text = await file.text()
ExtractPlain ==
    /\ pc = "plain"
    /\ \/ /\ result' = [result EXCEPT !.text = file.content]
          /\ pc' = "classify"
          /\ thrown' = thrown
       \/ \E fault \in Faults :
          /\ thrown' = Some(fault)
          /\ pc' = "catch"
          /\ result' = result
    /\ UNCHANGED <<file, pdfVars, classifyVars, answer, calls, app, sw>>

\* lines 96-98: a document extension without a strategy of its own
BestEffortWarning(extension) ==
    "Best-effort extraction for ." \o StrOf(extension) \o " format"

ExtractDefaultDocument ==
    /\ pc = "docdefault"
    /\ \/ /\ result' = [result EXCEPT
                !.text = file.content,
                !.warnings = Append(@, BestEffortWarning(getFileExtension(file.name)))]
          /\ pc' = "classify"
          /\ thrown' = thrown
       \/ \E fault \in Faults :
          /\ thrown' = Some(fault)
          /\ pc' = "catch"
          /\ result' = result
    /\ UNCHANGED <<file, pdfVars, classifyVars, answer, calls, app, sw>>

\* the Unicode replacement character U+FFFD, one character
REPLACEMENT_CHAR == "<U+FFFD>"

\* content.split('\n').length
LineCount(content) == Cardinality({i \in 1..Len(content) : content[i] = "\n"}) + 1

\* lines 388-400: extractCode
CodeExtracted(r, content, extension) ==
    [r EXCEPT !.text = content,
              !.metadata = SetMeta(SetMeta(@, "lineCount", LineCount(content)),
                                   "language", StrOf(toUpperCase(extension))),
              !.warnings = IF \E i \in 1..Len(content) : content[i] = REPLACEMENT_CHAR
                           THEN Append(@, "File contains replacement characters - possible encoding issues")
                           ELSE @]

ExtractCode ==
    /\ pc = "code"
    /\ \/ /\ result' = CodeExtracted(result, file.content, getFileExtension(file.name))
          /\ pc' = "classify"
          /\ thrown' = thrown
       \/ \E fault \in Faults :
          /\ thrown' = Some(fault)
          /\ pc' = "catch"
          /\ result' = result
    /\ UNCHANGED <<file, pdfVars, classifyVars, answer, calls, app, sw>>

(***************************************************************************)
(* extractDOCX (lines 174-194) and extractExcel (lines 296-316): the       *)
(* parsing is done by mammoth and by XLSX, whose answers are inputs.       *)
(***************************************************************************)
DOCX_UNREADABLE == "[UNREADABLE: DOCX extraction failed]"
EXCEL_UNREADABLE == "[UNREADABLE: Excel extraction failed]"

\* what mammoth.extractRawText can resolve with: the value and the messages
MammothResults ==
    { [value |-> <<"a">>, messages |-> <<>>],
      [value |-> <<>>, messages |-> <<>>],
      [value |-> <<"a">>, messages |-> <<[type |-> "warning", message |-> "w1"]>>],
      [value |-> <<"a">>, messages |-> <<[type |-> "error", message |-> "e1"],
                                         [type |-> "warning", message |-> "w1"]>>],
      [value |-> <<>>, messages |-> <<[type |-> "error", message |-> "e1"]>>] }

\* the messages of one type, in order
RECURSIVE MessagesOfType(_, _)
MessagesOfType(messages, type) ==
    IF messages = <<>> THEN <<>>
    ELSE (IF Head(messages).type = type THEN <<Head(messages).message>> ELSE <<>>)
         \o MessagesOfType(Tail(messages), type)

\* lines 179-189
DOCXExtracted(r, doc) ==
    [r EXCEPT !.text = doc.value,
              !.warnings = @ \o MessagesOfType(doc.messages, "warning"),
              !.errors = @ \o MessagesOfType(doc.messages, "error")]

\* lines 190-193
DOCXFailed(r) ==
    [r EXCEPT !.errors = Append(@, "Failed to extract DOCX. File may be corrupted or password-protected."),
              !.text = <<DOCX_UNREADABLE>>]

ExtractDOCX ==
    /\ pc = "docx"
    /\ \/ \E doc \in MammothResults : result' = DOCXExtracted(result, doc)
       \/ result' = DOCXFailed(result)
    /\ pc' = "classify"
    /\ UNCHANGED <<file, thrown, pdfVars, classifyVars, answer, calls, app, sw>>

\* what XLSX.read can return: the sheets in the order of SheetNames, each
\* with the CSV text sheet_to_csv renders for it
Workbooks ==
    { << [name |-> <<"S">>, csv |-> <<>>] >>,
      << [name |-> <<"S">>, csv |-> <<"1", ",", "2">>],
         [name |-> <<"T">>, csv |-> <<"x">>] >> }

SheetHeader(index, name) ==
    "=== Sheet " \o ToString(index) \o ": " \o StrOf(name) \o " ==="

\* lines 301-311
ExcelExtracted(r, workbook) ==
    [r EXCEPT !.metadata = SetMeta(@, "sheetCount", Len(workbook)),
              !.text = Join([i \in 1..Len(workbook) |->
                                <<SheetHeader(i, workbook[i].name), "\n">> \o workbook[i].csv],
                            <<"\n", "\n">>)]

\* lines 312-315
ExcelFailed(r) ==
    [r EXCEPT !.errors = Append(@, "Failed to extract Excel file. File may be corrupted or password-protected."),
              !.text = <<EXCEL_UNREADABLE>>]

ExtractExcel ==
    /\ pc = "excel"
    /\ \/ \E workbook \in Workbooks : result' = ExcelExtracted(result, workbook)
       \/ result' = ExcelFailed(result)
    /\ pc' = "classify"
    /\ UNCHANGED <<file, thrown, pdfVars, classifyVars, answer, calls, app, sw>>

(***************************************************************************)
(* extractImage (lines 334-386): Tesseract's answer is an input.           *)
(***************************************************************************)
OCR_UNREADABLE == "[UNREADABLE: OCR extraction failed]"
NO_TEXT_DETECTED ==
    "[NO TEXT DETECTED: Image may contain graphics, logos, or non-text content only]"
\* the number of characters of NO_TEXT_DETECTED matching [a-zA-Z0-9]
NO_TEXT_DETECTED_ALNUM == 62

\* lines 352-358, 362, 364, 367, 378: the cut points
VERY_LOW_CONFIDENCE == 30
LOW_CONFIDENCE == 50
MODERATE_CONFIDENCE == 75
WORD_CONFIDENCE == 60
MANY_LOW_WORDS == 10
WORD_EXAMPLES == 3
GARBAGE_MIN_LENGTH == 5
GARBAGE_CONFIDENCE == 60

Digits == {"0", "1", "2", "3", "4", "5", "6", "7", "8", "9"}
AlnumChars == {LowerChars[i] : i \in 1..26} \cup {UpperChars[i] : i \in 1..26} \cup Digits

\* text.length of a text given as chunks
RECURSIVE TextLength(_)
TextLength(text) ==
    IF text = <<>> THEN 0 ELSE Len(Head(text)) + TextLength(Tail(text))

\* (text.match(/[a-zA-Z0-9]/g) || []).length
RECURSIVE AlnumCount(_)
AlnumCount(text) ==
    IF text = <<>> THEN 0
    ELSE (IF Head(text) = NO_TEXT_DETECTED THEN NO_TEXT_DETECTED_ALNUM
          ELSE IF Head(text) \in AlnumChars THEN 1 ELSE 0)
         + AlnumCount(Tail(text))

\* Math.round of a non-negative number given in tenths
RoundTenths(t) == (t + 5) \div 10

\* lines 353, 355 and 357: the warnings of the three tiers
VeryLowWarning(confidence) ==
    "Very low OCR confidence: " \o ToString(confidence)
       \o "% - Text extraction is unreliable. The image may contain logos, icons, handwriting, or non-text elements."
LowWarning(confidence) ==
    "Low OCR confidence: " \o ToString(confidence)
       \o "% - Text may be inaccurate. Consider using a clearer image."
ModerateWarning(confidence) ==
    "Moderate OCR confidence: " \o ToString(confidence)
       \o "% - Some text may be inaccurate."

\* faulty variant: the thresholds belong to the lower tier
ConfidenceWarningsInclusive(confidence) ==
    IF confidence <= VERY_LOW_CONFIDENCE THEN <<VeryLowWarning(confidence)>>
    ELSE IF confidence <= LOW_CONFIDENCE THEN <<LowWarning(confidence)>>
    ELSE IF confidence <= MODERATE_CONFIDENCE THEN <<ModerateWarning(confidence)>>
    ELSE <<>>

\* lines 352-358: the warning of the confidence tier
ConfidenceWarnings(confidence) ==
    IF confidence < VERY_LOW_CONFIDENCE THEN <<VeryLowWarning(confidence)>>
    ELSE IF confidence < LOW_CONFIDENCE THEN <<LowWarning(confidence)>>
    ELSE IF confidence < MODERATE_CONFIDENCE THEN <<ModerateWarning(confidence)>>
    ELSE <<>>

\* words.filter(w => w.confidence < 60)
RECURSIVE LowConfWords(_)
LowConfWords(words) ==
    IF words = <<>> THEN <<>>
    ELSE (IF Head(words).confidence < WORD_CONFIDENCE THEN <<Head(words)>> ELSE <<>>)
         \o LowConfWords(Tail(words))

\* lowConfWords.slice(0, 3).map(w => `"${w.text}"`).join(', ')
RECURSIVE WordExamples(_)
WordExamples(words) ==
    IF words = <<>> THEN ""
    ELSE "\"" \o StrOf(Head(words).text) \o "\""
         \o (IF Len(words) > 1 THEN ", " ELSE "") \o WordExamples(Tail(words))

\* faulty variant: ten words of low confidence already give the count only
WordWarningsBelow(words) ==
    LET low == LowConfWords(words)
        n == Len(low)
    IN IF n > 0 /\ n < MANY_LOW_WORDS
       THEN <<ToString(n) \o " word(s) with low confidence: "
               \o WordExamples(SubSeq(low, 1, IF n < WORD_EXAMPLES THEN n ELSE WORD_EXAMPLES))
               \o (IF n > WORD_EXAMPLES THEN "..." ELSE "")>>
       ELSE IF n >= MANY_LOW_WORDS
       THEN <<ToString(n) \o " words with low confidence detected - consider using a higher quality image.">>
       ELSE <<>>

\* lines 361-369: the warning about words of low confidence
WordWarnings(words) ==
    LET low == LowConfWords(words)
        n == Len(low)
    IN IF n > 0 /\ n <= MANY_LOW_WORDS
       THEN <<ToString(n) \o " word(s) with low confidence: "
               \o WordExamples(SubSeq(low, 1, IF n < WORD_EXAMPLES THEN n ELSE WORD_EXAMPLES))
               \o (IF n > WORD_EXAMPLES THEN "..." ELSE "")>>
       ELSE IF n > MANY_LOW_WORDS
       THEN <<ToString(n) \o " words with low confidence detected - consider using a higher quality image.">>
       ELSE <<>>

NoTextWarning ==
    "No text detected in image. This could mean: (1) The image contains only graphics/logos, (2) Text is too small or blurry, (3) Text is in an unsupported language, or (4) The image is empty."
GarbageWarning ==
    "Text appears to contain many non-alphanumeric characters. This may indicate the image contains symbols, icons, or non-English text."

\* lines 377-380, on the text the result holds at that point
LooksLikeGarbage(text, confidence) ==
    LET length == TextLength(text)
    IN /\ length > GARBAGE_MIN_LENGTH
       /\ 10 * AlnumCount(text) < 3 * (IF length > 1 THEN length ELSE 1)
       /\ confidence < GARBAGE_CONFIDENCE

\* faulty variant: the garbage check reads the recognized text
ImageExtractedOnRecognized(r, data) ==
    LET confidence == RoundTenths(data.confidence)
        words == IF data.words = None THEN <<>> ELSE data.words[1]
        noText == Trim(data.text) = <<>>
        text == IF noText THEN <<NO_TEXT_DETECTED>> ELSE data.text
    IN [r EXCEPT
          !.text = text,
          !.confidence = Some(confidence),
          !.metadata = SetMeta(@, "ocrConfidence", confidence),
          !.warnings = @ \o ConfidenceWarnings(confidence)
                         \o WordWarnings(words)
                         \o (IF noText THEN <<NoTextWarning>> ELSE <<>>)
                         \o (IF LooksLikeGarbage(data.text, confidence)
                             THEN <<GarbageWarning>> ELSE <<>>)]

\* lines 346-380: data is ocrResult.data, its confidence given in tenths and
\* its words None when the property is missing
ImageExtracted(r, data) ==
    LET confidence == RoundTenths(data.confidence)
        words == IF data.words = None THEN <<>> ELSE data.words[1]
        noText == Trim(data.text) = <<>>
        text == IF noText THEN <<NO_TEXT_DETECTED>> ELSE data.text
    IN [r EXCEPT
          !.text = text,
          !.confidence = Some(confidence),
          !.metadata = SetMeta(@, "ocrConfidence", confidence),
          !.warnings = @ \o ConfidenceWarnings(confidence)
                         \o WordWarnings(words)
                         \o (IF noText THEN <<NoTextWarning>> ELSE <<>>)
                         \o (IF LooksLikeGarbage(text, confidence)
                             THEN <<GarbageWarning>> ELSE <<>>)]

\* lines 382-385
ImageFailed(r, fault) ==
    [r EXCEPT !.errors = Append(@, "OCR failed: " \o ErrorMessage(fault)),
              !.text = <<OCR_UNREADABLE>>]

Word(text, confidence) == [text |-> text, confidence |-> confidence]

\* Tesseract reports a confidence between 0 and 100
MAX_CONFIDENCE == 100

\* a word list with n words of low confidence between two other words
WordList(n) ==
    <<Word(<<"x">>, WORD_CONFIDENCE)>>
    \o [i \in 1..n |-> Word(<<LowerChars[i], "\"">>, WORD_CONFIDENCE - i)]
    \o <<Word(<<"y">>, MAX_CONFIDENCE)>>

\* what Tesseract.recognize can resolve with
OcrResults ==
    { [text |-> <<"a", "b">>, confidence |-> 10 * c, words |-> None] : c \in 0..MAX_CONFIDENCE }
    \cup
    { [text |-> <<"a", "b">>, confidence |-> 10 * c, words |-> Some(WordList(n))] :
          c \in {20, 80}, n \in {0, 1, 2, 3, 4, MANY_LOW_WORDS, MANY_LOW_WORDS + 1} }
    \cup
    { [text |-> <<" ", " ", " ", " ", " ", " ", "\n">>, confidence |-> 10 * c, words |-> None] :
          c \in {10, 80} }
    \cup
    { [text |-> <<"a", "b">>, confidence |-> 900, words |-> None],
      [text |-> <<"a", "b">>, confidence |-> 745,
       words |-> Some(<<Word(<<"a">>, 59), Word(<<"b">>, 60)>>)],
      [text |-> <<" ", "\n">>, confidence |-> 0, words |-> Some(<<>>)],
      [text |-> <<"#", "#", "#", "#", "#", "a">>, confidence |-> 295,
       words |-> Some(<<Word(<<"#">>, 10), Word(<<"#">>, 20), Word(<<"#">>, 30),
                        Word(<<"a">>, 40)>>)] }

ExtractImage ==
    /\ pc = "image"
    /\ \/ \E data \in OcrResults :
             /\ result' = ImageExtracted(result, data)
             /\ answer' = Some(data)
       \/ \E fault \in Faults :
             /\ result' = ImageFailed(result, fault)
             /\ answer' = None
    /\ pc' = "classify"
    /\ UNCHANGED <<file, thrown, pdfVars, classifyVars, calls, app, sw>>

(***************************************************************************)
(* Regular-expression replacements shared by extractRTF, extractHTML and   *)
(* extractUnknown.                                                         *)
(***************************************************************************)
LowerSet == {LowerChars[i] : i \in 1..26}

\* s without its longest prefix of characters of the set
RECURSIVE DropWhile(_, _)
DropWhile(s, set) ==
    IF s # <<>> /\ Head(s) \in set THEN DropWhile(Tail(s), set) ELSE s

\* whether s starts with the characters of prefix
StartsWith(s, prefix) ==
    Len(s) >= Len(prefix) /\ SubSeq(s, 1, Len(prefix)) = prefix

\* .replace(/\n{3,}/g, '\n\n')
RECURSIVE CollapseNewlines(_)
CollapseNewlines(s) ==
    IF s = <<>> THEN <<>>
    ELSE IF Head(s) = "\n"
    THEN LET rest == DropWhile(s, {"\n"})
             n == Len(s) - Len(rest)
         IN (IF n >= 3 THEN <<"\n", "\n">> ELSE SubSeq(s, 1, n)) \o CollapseNewlines(rest)
    ELSE <<Head(s)>> \o CollapseNewlines(Tail(s))

(***************************************************************************)
(* extractRTF (lines 246-267).                                             *)
(***************************************************************************)
\* .replace(/\\[a-z]+\d* ?/g, '')
RECURSIVE StripControlWords(_)
StripControlWords(s) ==
    IF s = <<>> THEN <<>>
    ELSE IF Head(s) = "\\" /\ Len(s) >= 2 /\ s[2] \in LowerSet
    THEN LET afterDigits == DropWhile(DropWhile(Tail(s), LowerSet), Digits)
         IN StripControlWords(IF afterDigits # <<>> /\ Head(afterDigits) = " "
                              THEN Tail(afterDigits) ELSE afterDigits)
    ELSE <<Head(s)>> \o StripControlWords(Tail(s))

\* .replace(/\{[^}]*\}/g, '')
RECURSIVE RemoveGroups(_)
RemoveGroups(s) ==
    IF s = <<>> THEN <<>>
    ELSE IF Head(s) = "{" /\ \E j \in 2..Len(s) : s[j] = "}"
    THEN LET close == CHOOSE j \in 2..Len(s) :
                          s[j] = "}" /\ \A k \in 2..(j - 1) : s[k] # "}"
         IN RemoveGroups(SubSeq(s, close + 1, Len(s)))
    ELSE <<Head(s)>> \o RemoveGroups(Tail(s))

\* .replace(/[{}]/g, '')
RECURSIVE RemoveBraces(_)
RemoveBraces(s) ==
    IF s = <<>> THEN <<>>
    ELSE (IF Head(s) \in {"{", "}"} THEN <<>> ELSE <<Head(s)>>) \o RemoveBraces(Tail(s))

\* .replace(pattern, '\n') for a pattern that is a fixed string
RECURSIVE ReplaceByNewline(_, _)
ReplaceByNewline(s, pattern) ==
    IF s = <<>> THEN <<>>
    ELSE IF StartsWith(s, pattern)
    THEN <<"\n">> \o ReplaceByNewline(SubSeq(s, Len(pattern) + 1, Len(s)), pattern)
    ELSE <<Head(s)>> \o ReplaceByNewline(Tail(s), pattern)

\* lines 250-263: the chain of replacements, in the order of the code
RTFToText(content) ==
    LET noWords == StripControlWords(content)
        noGroups == RemoveGroups(noWords)
        noBraces == RemoveBraces(noGroups)
        pars == ReplaceByNewline(noBraces, <<"\\", "p", "a", "r">>)
        breaks == ReplaceByNewline(pars, <<"\\", "\n">>)
        unix == ReplaceByNewline(breaks, <<"\r", "\n">>)
    IN Trim(CollapseNewlines(unix))

\* faulty variant: no caveat is pushed
RTFExtractedSilent(r, content) ==
    [r EXCEPT !.text = RTFToText(content)]

RTFExtracted(r, content) ==
    [r EXCEPT !.text = RTFToText(content),
              !.warnings = Append(@, "RTF extraction is best-effort. Some formatting may be lost.")]

ExtractRTF ==
    /\ pc = "rtf"
    /\ \/ /\ result' = RTFExtracted(result, file.content)
          /\ pc' = "classify"
          /\ thrown' = thrown
       \/ \E fault \in Faults :
          /\ thrown' = Some(fault)
          /\ pc' = "catch"
          /\ result' = result
    /\ UNCHANGED <<file, pdfVars, classifyVars, answer, calls, app, sw>>

(***************************************************************************)
(* extractUnknown (lines 467-532).  The bytes of the file are its          *)
(* characters; JSZip's answer is an input.                                 *)
(***************************************************************************)
\* the character U+0000, one of the characters [\x00-\x08\x0E-\x1F] that line
\* 476 counts; the form feed U+000C ("\f") lies outside that class
NUL_CHAR == "<NUL>"
ControlChars == {NUL_CHAR}

\* the characters \x20-\x7E (the grave accent, which cannot be written in a
\* string here, is left out)
PrintableAscii ==
    AlnumChars \cup
    { " ", "!", "\"", "#", "$", "%", "&", "'", "(", ")", "*", "+", ",", "-", ".",
      "/", ":", ";", "<", "=", ">", "?", "@", "[", "\\", "]", "^", "_", "{", "|",
      "}", "~" }

BINARY_SAMPLE == 1000       \* line 475
MIN_READABLE == 10          \* line 487
FILE_UNREADABLE == "[UNREADABLE: File extraction failed]"
BINARY_UNREADABLE == "[UNREADABLE: Binary file with no extractable text]"

\* faulty variant: a tenth of the sample is enough
LooksBinaryInclusive(content) ==
    LET binaryCheck == SubSeq(content, 1,
                              IF Len(content) < BINARY_SAMPLE THEN Len(content)
                              ELSE BINARY_SAMPLE)
        nonPrintable == Cardinality({i \in 1..Len(binaryCheck) :
                                        binaryCheck[i] \in ControlChars})
    IN 10 * nonPrintable >= Len(binaryCheck) /\ nonPrintable > 0

\* lines 475-478: nonPrintable > binaryCheck.length * 0.1
LooksBinary(content) ==
    LET binaryCheck == SubSeq(content, 1,
                              IF Len(content) < BINARY_SAMPLE THEN Len(content)
                              ELSE BINARY_SAMPLE)
        nonPrintable == Cardinality({i \in 1..Len(binaryCheck) :
                                        binaryCheck[i] \in ControlChars})
    IN 10 * nonPrintable > Len(binaryCheck)

\* .replace(/ {3,}/g, ' '): of a run of three spaces or more only the first
\* space stays
InLongRun(s, i) ==
    /\ s[i] = " "
    /\ i > 1 /\ s[i - 1] = " "
    /\ \/ i > 2 /\ s[i - 2] = " "
       \/ i < Len(s) /\ s[i + 1] = " "

CollapseSpaces(s) ==
    LET kept == SelectSeq([i \in 1..Len(s) |-> i], LAMBDA i : ~InLongRun(s, i))
    IN [k \in 1..Len(kept) |-> s[kept[k]]]

\* lines 483-485
Readable(content) ==
    Trim(CollapseSpaces([i \in 1..Len(content) |->
            IF content[i] \in PrintableAscii \cup {"\r", "\n", "\t"}
            THEN content[i] ELSE " "]))

\* lines 475-496: the text step
UnknownText(r, content) ==
    IF LooksBinary(content)
    THEN LET binary == [r EXCEPT !.warnings =
                 Append(@, "File appears to be binary - extracted readable portions only")]
         IN IF Len(Readable(content)) < MIN_READABLE
            THEN [binary EXCEPT !.errors = Append(@, "No readable text content found"),
                                !.text = <<BINARY_UNREADABLE>>]
            ELSE [binary EXCEPT !.text = Readable(content)]
    ELSE [r EXCEPT !.text = content]

\* line 500: the first two bytes are 0x50 0x4B
HasZipSignature(content) == StartsWith(content, <<"P", "K">>)

ZipWarning ==
    "File appears to be a ZIP-based format. Consider extracting individual files."

\* an entry of zip.files: its path, whether it is a directory, and what
\* zipEntry.async('string') resolves with (None when it rejects)
ZipEntry(path, dir, content) == [path |-> path, dir |-> dir, content |-> content]

\* lines 505-518: the text files recovered from the entries, in order
RECURSIVE TextFiles(_)
TextFiles(entries) ==
    IF entries = <<>> THEN <<>>
    ELSE LET entry == Head(entries)
         IN (IF ~entry.dir /\ entry.content # None /\ Len(entry.content[1]) > 0
             THEN << <<"=== " \o StrOf(entry.path) \o " ===", "\n">> \o entry.content[1] >>
             ELSE <<>>)
            \o TextFiles(Tail(entries))

\* faulty variant: the recovered files are added after the earlier text
ZipExtractedAppending(r, entries) ==
    LET textFiles == TextFiles(entries)
    IN IF Len(textFiles) > 0
       THEN [r EXCEPT !.text = @ \o Join(textFiles, <<"\n", "\n">>),
                      !.warnings = Append(@, "Extracted " \o ToString(Len(textFiles))
                                             \o " text file(s) from archive")]
       ELSE r

\* lines 520-523
ZipExtracted(r, entries) ==
    LET textFiles == TextFiles(entries)
    IN IF Len(textFiles) > 0
       THEN [r EXCEPT !.text = Join(textFiles, <<"\n", "\n">>),
                      !.warnings = Append(@, "Extracted " \o ToString(Len(textFiles))
                                             \o " text file(s) from archive")]
       ELSE r

\* lines 528-531: the outer catch block
UnknownFailed(r) ==
    [r EXCEPT !.errors = Append(@, "Could not read file as text"),
              !.text = <<FILE_UNREADABLE>>]

\* what happened to the reads and to JSZip.loadAsync in a call
ReadFailed == [kind |-> "read failed", entries |-> <<>>]
NoArchive == [kind |-> "no archive", entries |-> <<>>]
ArchiveFailed == [kind |-> "archive failed", entries |-> <<>>]
ArchiveOpened(entries) == [kind |-> "archive opened", entries |-> entries]

\* what JSZip.loadAsync can resolve with
ZipArchives ==
    { <<>>,
      << ZipEntry(<<"n", "o", "t", "e", "s", ".", "t", "x", "t">>, FALSE,
                  Some(<<"h", "e", "l", "l", "o">>)) >>,
      << ZipEntry(<<"n", ".", "t">>, FALSE, Some(<<"h", "i">>)) >>,
      << ZipEntry(<<"d", "/">>, TRUE, Some(<<>>)),
         ZipEntry(<<"d", "/", "b">>, FALSE, None),
         ZipEntry(<<"d", "/", "e">>, FALSE, Some(<<>>)) >>,
      << ZipEntry(<<"a">>, FALSE, Some(<<"x">>)),
         ZipEntry(<<"b">>, FALSE, None),
         ZipEntry(<<"c">>, FALSE, Some(<<"y">>)) >> }

ExtractUnknown ==
    /\ pc = "unknown"
    /\ \/ \* file.text() rejects
          /\ result' = UnknownFailed(result)
          /\ answer' = Some(ReadFailed)
       \/ \* file.slice(0, 4).arrayBuffer() rejects
          /\ result' = UnknownFailed(UnknownText(result, file.content))
          /\ answer' = Some(ReadFailed)
       \/ /\ ~HasZipSignature(file.content)
          /\ result' = UnknownText(result, file.content)
          /\ answer' = Some(NoArchive)
       \/ /\ HasZipSignature(file.content)
          /\ LET warned == [UnknownText(result, file.content) EXCEPT
                                !.warnings = Append(@, ZipWarning)]
             IN \/ \* file.arrayBuffer() or JSZip.loadAsync rejects
                   /\ result' = warned
                   /\ answer' = Some(ArchiveFailed)
                \/ \E entries \in ZipArchives :
                      /\ result' = ZipExtracted(warned, entries)
                      /\ answer' = Some(ArchiveOpened(entries))
    /\ pc' = "classify"
    /\ UNCHANGED <<file, thrown, pdfVars, classifyVars, calls, app, sw>>

(***************************************************************************)
(* extractHTML (lines 196-244).  DOMParser's answer for a content is       *)
(* given by a table of documents.                                          *)
(***************************************************************************)
TextNode(content) == [type |-> "text", tag |-> "", content |-> content, children |-> <<>>]
Element(tag, children) == [type |-> "element", tag |-> tag, content |-> <<>>, children |-> children]
CommentNode == [type |-> "comment", tag |-> "", content |-> <<>>, children |-> <<>>]

\* line 221
BlockElements == {"div", "p", "h1", "h2", "h3", "h4", "h5", "h6", "li", "tr", "br", "hr"}

\* lines 204-205: every script and style element is removed from the tree
RECURSIVE RemoveScripts(_)
RECURSIVE RemoveScriptsAmong(_)
RemoveScriptsAmong(nodes) ==
    IF nodes = <<>> THEN <<>>
    ELSE (IF Head(nodes).type = "element" /\ Head(nodes).tag \in {"script", "style"}
          THEN <<>> ELSE <<RemoveScripts(Head(nodes))>>)
         \o RemoveScriptsAmong(Tail(nodes))
RemoveScripts(node) == [node EXCEPT !.children = RemoveScriptsAmong(@)]

\* lines 208-236: extractTextFromNode; the local text is empty when the
\* element branch tests text.length > 0
RECURSIVE extractTextFromNode(_)
RECURSIVE extractTextFromNodes(_)
extractTextFromNodes(nodes) ==
    IF nodes = <<>> THEN <<>>
    ELSE extractTextFromNode(Head(nodes)) \o extractTextFromNodes(Tail(nodes))
extractTextFromNode(node) ==
    IF node.type = "text" THEN Trim(node.content)
    ELSE IF node.type = "element"
    THEN LET text == <<>>
             before == IF node.tag \in BlockElements /\ Len(text) > 0
                       THEN text \o <<"\n">> ELSE text
             inner == before \o extractTextFromNodes(node.children)
         IN IF node.tag \in BlockElements THEN inner \o <<"\n">> ELSE inner
    ELSE <<>>

\* lines 238-243
HTMLExtracted(r, html, body) ==
    [r EXCEPT !.text = Trim(CollapseNewlines(extractTextFromNode(RemoveScripts(body)))),
              !.metadata = SetMeta(@, "rawHtmlLength", Len(html))]

\* contents of .html files with the body DOMParser builds for each
HtmlDocuments ==
    { [content |-> <<>>, body |-> Element("body", <<>>)],
      [content |-> <<"a", "<", "p", ">", "b", "<", "/", "p", ">", " ", "c", " ">>,
       body |-> Element("body", <<TextNode(<<"a">>), Element("p", <<TextNode(<<"b">>)>>),
                                  TextNode(<<" ", "c", " ">>)>>)],
      [content |-> <<"<", "d", "i", "v", ">", "<", "s", "c", "r", "i", "p", "t", ">", "x", "<", "/", "s", "c", "r", "i", "p", "t", ">", "<", "p", ">", "<", "/", "p", ">", "<", "/", "d", "i", "v", ">">>,
       body |-> Element("body", <<Element("div", <<Element("script", <<TextNode(<<"x">>)>>),
                                                  Element("p", <<>>)>>)>>)],
      [content |-> <<"<", "p", ">", "a", "<", "/", "p", ">", "<", "b", "r", ">", "<", "b", "r", ">", "<", "s", "p", "a", "n", ">", "b", "<", "/", "s", "p", "a", "n", ">", "<", "!", "-", "-", "-", "-", ">">>,
       body |-> Element("body", <<Element("p", <<TextNode(<<"a">>)>>),
                                  Element("br", <<>>), Element("br", <<>>),
                                  Element("span", <<TextNode(<<"b">>)>>), CommentNode>>)] }

ExtractHTML ==
    /\ pc = "html"
    /\ \/ \E doc \in HtmlDocuments :
          /\ doc.content = file.content
          /\ result' = HTMLExtracted(result, file.content, doc.body)
          /\ pc' = "classify"
          /\ thrown' = thrown
       \/ \E fault \in Faults :
          /\ thrown' = Some(fault)
          /\ pc' = "catch"
          /\ result' = result
    /\ UNCHANGED <<file, pdfVars, classifyVars, answer, calls, app, sw>>

(***************************************************************************)
(* extractJSON (lines 318-332).  JSON.parse's answer for a content is      *)
(* given by a table; JSON.stringify(value, null, 2) is computed.           *)
(***************************************************************************)
\* a JSON value.  A number is kept as JavaScript reads it, 0.d1d2...dk x 10^n
\* with no leading or trailing zero digit (zero has no digit); a number
\* literal beyond the range of a double is read as Infinity
JNumber(sign, digits, n) == [t |-> "number", sign |-> sign, digits |-> digits, n |-> n]
JInfinity(sign) == [t |-> "infinity", sign |-> sign]
JStr(chars) == [t |-> "string", v |-> chars]
JLit(name) == [t |-> "literal", v |-> name]
JArr(items) == [t |-> "array", v |-> items]
JObj(members) == [t |-> "object", v |-> members]
Member(key, value) == [key |-> key, value |-> value]

DigitChars == <<"0", "1", "2", "3", "4", "5", "6", "7", "8", "9">>
DigitVal(c) == CHOOSE d \in 0..9 : DigitChars[d + 1] = c

\* the decimal digits of a natural number
RECURSIVE DigitsOf(_)
DigitsOf(n) ==
    IF n < 10 THEN <<DigitChars[n + 1]>>
    ELSE DigitsOf(n \div 10) \o <<DigitChars[(n % 10) + 1]>>

\* the natural number written by a run of digits
RECURSIVE NatOf(_)
NatOf(ds) ==
    IF ds = <<>> THEN 0 ELSE NatOf(SubSeq(ds, 1, Len(ds) - 1)) * 10 + DigitVal(ds[Len(ds)])

JNum(n) ==
    IF n = 0 THEN JNumber(1, <<>>, 0)
    ELSE LET ds == DigitsOf(IF n < 0 THEN -n ELSE n)
             RECURSIVE Strip(_)
             Strip(d) == IF d[Len(d)] = "0" THEN Strip(SubSeq(d, 1, Len(d) - 1)) ELSE d
         IN JNumber(IF n < 0 THEN -1 ELSE 1, Strip(ds), Len(ds))

Spaces(n) == [i \in 1..n |-> " "]
Zeros(n) == [i \in 1..n |-> "0"]

BACKSPACE_CHAR == "<BS>"

\* the two-character escapes that JSON.parse reads and JSON.stringify writes
EscapeOf(c) ==
    CASE c = "\"" -> <<"\\", "\"">>
      [] c = "\\" -> <<"\\", "\\">>
      [] c = "\n" -> <<"\\", "n">>
      [] c = "\r" -> <<"\\", "r">>
      [] c = "\t" -> <<"\\", "t">>
      [] c = "\f" -> <<"\\", "f">>
      [] c = BACKSPACE_CHAR -> <<"\\", "b">>
      [] OTHER -> <<c>>

RECURSIVE Quote(_)
Quote(chars) ==
    IF chars = <<>> THEN <<>> ELSE EscapeOf(Head(chars)) \o Quote(Tail(chars))

\* Number::toString of the finite number 0.digits x 10^n
NumberToString(sign, digits, n) ==
    LET k == Len(digits)
        e == n - 1
        exponent == <<"e", IF e < 0 THEN "-" ELSE "+">> \o DigitsOf(IF e < 0 THEN -e ELSE e)
        body ==
            IF k = 0 THEN <<"0">>
            ELSE IF k <= n /\ n <= 21 THEN digits \o Zeros(n - k)
            ELSE IF 0 < n /\ n <= 21 THEN SubSeq(digits, 1, n) \o <<".">> \o SubSeq(digits, n + 1, k)
            ELSE IF -6 < n /\ n <= 0 THEN <<"0", ".">> \o Zeros(-n) \o digits
            ELSE IF k = 1 THEN digits \o exponent
            ELSE <<digits[1], ".">> \o SubSeq(digits, 2, k) \o exponent
    IN (IF sign < 0 /\ k > 0 THEN <<"-">> ELSE <<>>) \o body

\* JSON.stringify(value, null, 2) at the given indentation
RECURSIVE Stringify(_, _)
RECURSIVE StringifyItems(_, _)
RECURSIVE StringifyMembers(_, _)
StringifyItems(items, indent) ==
    IF items = <<>> THEN <<>>
    ELSE Spaces(indent) \o Stringify(Head(items), indent)
         \o (IF Len(items) > 1 THEN <<",", "\n">> ELSE <<>>)
         \o StringifyItems(Tail(items), indent)
StringifyMembers(members, indent) ==
    IF members = <<>> THEN <<>>
    ELSE Spaces(indent) \o <<"\"">> \o Quote(Head(members).key) \o <<"\"", ":", " ">>
         \o Stringify(Head(members).value, indent)
         \o (IF Len(members) > 1 THEN <<",", "\n">> ELSE <<>>)
         \o StringifyMembers(Tail(members), indent)
Stringify(value, indent) ==
    CASE value.t = "number" -> NumberToString(value.sign, value.digits, value.n)
      [] value.t = "infinity" -> <<"n", "u", "l", "l">>
      [] value.t = "literal" ->
            IF value.v = "null" THEN <<"n", "u", "l", "l">>
            ELSE IF value.v = "true" THEN <<"t", "r", "u", "e">>
            ELSE <<"f", "a", "l", "s", "e">>
      [] value.t = "string" -> <<"\"">> \o Quote(value.v) \o <<"\"">>
      [] value.t = "array" ->
            IF value.v = <<>> THEN <<"[", "]">>
            ELSE <<"[", "\n">> \o StringifyItems(value.v, indent + 2)
                 \o <<"\n">> \o Spaces(indent) \o <<"]">>
      [] value.t = "object" ->
            IF value.v = <<>> THEN <<"{", "}">>
            ELSE <<"{", "\n">> \o StringifyMembers(value.v, indent + 2)
                 \o <<"\n">> \o Spaces(indent) \o <<"}">>

(***************************************************************************)
(* JSON.parse (line 323), over contents whose strings use the two-         *)
(* character escapes only and whose keys are not array indices.            *)
(***************************************************************************)
\* the largest double is 1.7976931348623157e308; the smallest number that
\* does not round to zero is above 2.47e-324
MAX_DOUBLE_DIGITS ==
    <<"1", "7", "9", "7", "6", "9", "3", "1", "3", "4", "8", "6", "2", "3", "1", "5", "7">>
MAX_DOUBLE_POINT == 309
MIN_DOUBLE_DIGITS == <<"2", "4", "7">>
MIN_DOUBLE_POINT == -323

JSON_WHITESPACE == {" ", "\n", "\r", "\t"}

\* the character at a position, "" past the end
At(s, i) == IF 1 <= i /\ i <= Len(s) THEN s[i] ELSE ""

RECURSIVE SkipWs(_, _)
SkipWs(s, i) == IF At(s, i) \in JSON_WHITESPACE THEN SkipWs(s, i + 1) ELSE i

\* the first position from i that holds no digit
RECURSIVE DigitsEnd(_, _)
DigitsEnd(s, i) == IF At(s, i) \in Digits THEN DigitsEnd(s, i + 1) ELSE i

\* digit strings compared as fractions 0.a and 0.b
RECURSIVE FractionGreater(_, _)
FractionGreater(a, b) ==
    IF a = <<>> THEN FALSE
    ELSE IF b = <<>> THEN TRUE
    ELSE IF Head(a) # Head(b) THEN DigitVal(Head(a)) > DigitVal(Head(b))
    ELSE FractionGreater(Tail(a), Tail(b))

RECURSIVE StripLeadingZeros(_)
StripLeadingZeros(ds) ==
    IF ds # <<>> /\ Head(ds) = "0" THEN StripLeadingZeros(Tail(ds)) ELSE ds

RECURSIVE StripTrailingZeros(_)
StripTrailingZeros(ds) ==
    IF ds # <<>> /\ ds[Len(ds)] = "0" THEN StripTrailingZeros(SubSeq(ds, 1, Len(ds) - 1)) ELSE ds

\* the double for sign, the digits before and after the point and the exponent
NumberValue(sign, intDigits, fracDigits, exp) ==
    LET all == intDigits \o fracDigits
        lead == StripLeadingZeros(all)
        digits == StripTrailingZeros(lead)
        n == Len(intDigits) + exp - (Len(all) - Len(lead))
    IN IF digits = <<>> THEN JNumber(sign, <<>>, 0)
       ELSE IF n > MAX_DOUBLE_POINT
               \/ (n = MAX_DOUBLE_POINT /\ FractionGreater(digits, MAX_DOUBLE_DIGITS))
       THEN JInfinity(sign)
       ELSE IF n < MIN_DOUBLE_POINT
               \/ (n = MIN_DOUBLE_POINT /\ ~FractionGreater(digits, MIN_DOUBLE_DIGITS))
       THEN JNumber(sign, <<>>, 0)
       ELSE JNumber(sign, digits, n)

Parsed(value, next) == [ok |-> TRUE, value |-> value, next |-> next]
NotParsed == [ok |-> FALSE, value |-> JLit("null"), next |-> 0]

\* a number literal from position i
ParseNumber(s, i) ==
    LET sign == IF At(s, i) = "-" THEN -1 ELSE 1
        i1 == IF At(s, i) = "-" THEN i + 1 ELSE i
        i2 == IF At(s, i1) = "0" THEN i1 + 1 ELSE DigitsEnd(s, i1)
        hasFrac == At(s, i2) = "."
        i3 == IF hasFrac THEN DigitsEnd(s, i2 + 1) ELSE i2
        hasExp == At(s, i3) \in {"e", "E"}
        i4 == IF hasExp /\ At(s, i3 + 1) \in {"+", "-"} THEN i3 + 2 ELSE i3 + 1
        i5 == IF hasExp THEN DigitsEnd(s, i4) ELSE i3
        expAbs == IF hasExp THEN NatOf(SubSeq(s, i4, i5 - 1)) ELSE 0
        exp == IF hasExp /\ At(s, i3 + 1) = "-" THEN -expAbs ELSE expAbs
    IN IF i2 = i1 \/ (hasFrac /\ i3 = i2 + 1) \/ (hasExp /\ i5 = i4)
       THEN NotParsed
       ELSE Parsed(NumberValue(sign, SubSeq(s, i1, i2 - 1),
                               IF hasFrac THEN SubSeq(s, i2 + 1, i3 - 1) ELSE <<>>, exp), i5)

UnescapeOf(c) ==
    CASE c = "n" -> "\n"
      [] c = "r" -> "\r"
      [] c = "t" -> "\t"
      [] c = "f" -> "\f"
      [] c = "b" -> BACKSPACE_CHAR
      [] OTHER -> c

\* the rest of a string literal from position i, after its opening quote
RECURSIVE ParseString(_, _, _)
ParseString(s, i, acc) ==
    LET c == At(s, i)
    IN IF c = "\"" THEN Parsed(acc, i + 1)
       ELSE IF c = "" \/ c \in {"\n", "\r", "\t", "\f", BACKSPACE_CHAR} \/ c \in ControlChars
       THEN NotParsed
       ELSE IF c = "\\"
       THEN IF At(s, i + 1) \in {"\"", "\\", "/", "n", "r", "t", "f", "b"}
            THEN ParseString(s, i + 2, Append(acc, UnescapeOf(At(s, i + 1))))
            ELSE NotParsed
       ELSE ParseString(s, i + 1, Append(acc, c))

StartsAt(s, i, word) ==
    i + Len(word) - 1 <= Len(s) /\ SubSeq(s, i, i + Len(word) - 1) = word

\* a member is stored at the position of the first member with its key, with
\* the value of the last one
RECURSIVE PutMember(_, _)
PutMember(members, m) ==
    IF members = <<>> THEN <<m>>
    ELSE IF Head(members).key = m.key THEN <<m>> \o Tail(members)
    ELSE <<Head(members)>> \o PutMember(Tail(members), m)

RECURSIVE ParseValue(_, _)
RECURSIVE ParseElements(_, _, _)
RECURSIVE ParseMembers(_, _, _)
ParseElements(s, i, acc) ==
    LET v == ParseValue(s, SkipWs(s, i))
        j == SkipWs(s, v.next)
    IN IF ~v.ok THEN NotParsed
       ELSE IF At(s, j) = "," THEN ParseElements(s, j + 1, Append(acc, v.value))
       ELSE IF At(s, j) = "]" THEN Parsed(JArr(Append(acc, v.value)), j + 1)
       ELSE NotParsed
ParseMembers(s, i, acc) ==
    LET j == SkipWs(s, i)
        key == ParseString(s, j + 1, <<>>)
        k == SkipWs(s, key.next)
        v == ParseValue(s, SkipWs(s, k + 1))
        l == SkipWs(s, v.next)
    IN IF At(s, j) # "\"" \/ ~key.ok \/ At(s, k) # ":" \/ ~v.ok THEN NotParsed
       ELSE IF At(s, l) = ","
       THEN ParseMembers(s, l + 1, PutMember(acc, Member(key.value, v.value)))
       ELSE IF At(s, l) = "}"
       THEN Parsed(JObj(PutMember(acc, Member(key.value, v.value))), l + 1)
       ELSE NotParsed
ParseValue(s, i) ==
    LET c == At(s, i)
    IN IF c = "[" THEN
            IF At(s, SkipWs(s, i + 1)) = "]" THEN Parsed(JArr(<<>>), SkipWs(s, i + 1) + 1)
            ELSE ParseElements(s, i + 1, <<>>)
       ELSE IF c = "{" THEN
            IF At(s, SkipWs(s, i + 1)) = "}" THEN Parsed(JObj(<<>>), SkipWs(s, i + 1) + 1)
            ELSE ParseMembers(s, i + 1, <<>>)
       ELSE IF c = "\"" THEN
            LET str == ParseString(s, i + 1, <<>>)
            IN IF str.ok THEN Parsed(JStr(str.value), str.next) ELSE NotParsed
       ELSE IF StartsAt(s, i, <<"n", "u", "l", "l">>) THEN Parsed(JLit("null"), i + 4)
       ELSE IF StartsAt(s, i, <<"t", "r", "u", "e">>) THEN Parsed(JLit("true"), i + 4)
       ELSE IF StartsAt(s, i, <<"f", "a", "l", "s", "e">>) THEN Parsed(JLit("false"), i + 5)
       ELSE IF c = "-" \/ c \in Digits THEN ParseNumber(s, i)
       ELSE NotParsed

\* JSON.parse(content): the value, or None when it throws a SyntaxError
JSONParse(s) ==
    LET v == ParseValue(s, SkipWs(s, 1))
    IN IF v.ok /\ SkipWs(s, v.next) = Len(s) + 1 THEN Some(v.value) ELSE None

\* contents of .json files
JsonContents ==
    { <<>>,
      <<"{", "a", "}">>,
      <<"1">>,
      <<" ", "[", " ", "]">>,
      <<"{", "\"", "a", "\"", ":", "1", ",", "\"", "b", "\"", ":", "[", "2", ",", "3", "]", "}">>,
      <<"[", "n", "u", "l", "l", ",", "\"", "x", "\"", "]">>,
      <<"1", "e", "4", "0", "0">>,
      <<"-", "2", ".", "5", "0", "e", "1">>,
      <<"{", "\"", "a", "\"", ":", "1", ",", "\"", "a", "\"", ":", "t", "r", "u", "e", "}">>,
      <<"\"", "a", "\\", "n", "b", "\"">>,
      <<"[", "1", ",", "]">>,
      <<"1", "e", "2", "1">>,
      <<"5", "e", "-", "7">>,
      <<"[", "[", "0", ".", "1", "]", "]">> }

\* contents of .json files with what JSON.parse does for each: parsed is
\* None when it throws a SyntaxError
JsonDocuments == { [content |-> c, parsed |-> JSONParse(c)] : c \in JsonContents }

\* lines 321-331
JSONExtracted(r, content, parsed) ==
    IF parsed # None
    THEN [r EXCEPT !.text = Stringify(parsed[1], 0),
                   !.metadata = SetMeta(@, "isValidJson", 1)]
    ELSE [r EXCEPT !.text = content,
                   !.warnings = Append(@, "File does not contain valid JSON"),
                   !.metadata = SetMeta(@, "isValidJson", 0)]

ExtractJSON ==
    /\ pc = "json"
    /\ \/ \E doc \in JsonDocuments :
          /\ doc.content = file.content
          /\ result' = JSONExtracted(result, file.content, doc.parsed)
          /\ pc' = "classify"
          /\ thrown' = thrown
       \/ \E fault \in Faults :
          /\ thrown' = Some(fault)
          /\ pc' = "catch"
          /\ result' = result
    /\ UNCHANGED <<file, pdfVars, classifyVars, answer, calls, app, sw>>

(***************************************************************************)
(* extractNotebook (lines 402-465).  What JSON.parse returns for the file  *)
(* is an input: it throws, or returns null, or an object whose fields      *)
(* may be absent.                                                          *)
(***************************************************************************)
NOTEBOOK_UNREADABLE == "[UNREADABLE: Notebook extraction failed]"

\* a source or output text is a string or an array of strings
StringValue(chars) == [isArray |-> FALSE, v |-> chars]
ArrayValue(lines) == [isArray |-> TRUE, v |-> lines]

\* JavaScript truthiness of an optional string-or-array field: an absent field
\* and the empty string are falsy, every array is truthy
Truthy(field) == field # None /\ (field[1].isArray \/ field[1].v # <<>>)

\* Array.isArray(x) ? x.join('') : x
TextOf(value) == IF value.isArray THEN Join(value.v, <<>>) ELSE value.v

Output(text, data, ename, evalue) ==
    [text |-> text, data |-> data, ename |-> ename, evalue |-> evalue]
Cell(cell_type, source, outputs) ==
    [isNull |-> FALSE, cell_type |-> cell_type, source |-> source, outputs |-> outputs]
NullCell == [isNull |-> TRUE, cell_type |-> "", source |-> None, outputs |-> None]
Notebook(metadata, cells) == [isNull |-> FALSE, metadata |-> metadata, cells |-> cells]
NullNotebook == [isNull |-> TRUE, metadata |-> None, cells |-> None]

\* lines 439-453: what one output pushes on parts
OutputParts(output) ==
    IF Truthy(output.text) THEN <<TextOf(output.text[1])>>
    ELSE IF output.data # None
    THEN IF Truthy(output.data[1]) THEN <<TextOf(output.data[1][1])>> ELSE <<>>
    ELSE IF output.ename # ""
    THEN << <<"[Error: " \o output.ename \o "] " \o output.evalue>> >>
    ELSE <<>>

RECURSIVE OutputsParts(_)
OutputsParts(outputs) ==
    IF outputs = <<>> THEN <<>>
    ELSE OutputParts(Head(outputs)) \o OutputsParts(Tail(outputs))

\* lines 422-457: what the cell at this position pushes on parts
CellParts(cell, cellNum) ==
    LET cellType == IF cell.cell_type # "" THEN cell.cell_type ELSE "unknown"
    IN << <<"=== Cell " \o ToString(cellNum) \o " (" \o cellType \o ") ===">> >>
       \o (IF Truthy(cell.source) THEN <<TextOf(cell.source[1])>> ELSE <<>>)
       \o (IF cell.outputs # None /\ Len(cell.outputs[1]) > 0
           THEN << <<"\n--- Output ---">> >> \o OutputsParts(cell.outputs[1])
           ELSE <<>>)
       \o << <<>> >>

RECURSIVE CellsParts(_, _)
CellsParts(cells, cellNum) ==
    IF cells = <<>> THEN <<>>
    ELSE CellParts(Head(cells), cellNum) \o CellsParts(Tail(cells), cellNum + 1)

\* lines 410-415
NotebookLanguage(metadata) ==
    IF metadata.kernelspecLanguage # "" THEN metadata.kernelspecLanguage
    ELSE IF metadata.languageInfoName # "" THEN metadata.languageInfoName
    ELSE "unknown"

\* lines 461-464
NotebookFailed(r) ==
    [r EXCEPT !.errors = Append(@, "Failed to parse notebook. File may be corrupted."),
              !.text = <<NOTEBOOK_UNREADABLE>>]

\* lines 407-460; reading a field of null throws into the catch, with the
\* metadata written so far kept
NotebookExtracted(r, notebook) ==
    IF notebook.isNull THEN NotebookFailed(r)
    ELSE LET withLang == IF notebook.metadata # None
                         THEN [r EXCEPT !.metadata =
                                  SetMeta(@, "notebookLanguage", NotebookLanguage(notebook.metadata[1]))]
                         ELSE r
             cells == IF notebook.cells # None THEN notebook.cells[1] ELSE <<>>
             counted == [withLang EXCEPT !.metadata = SetMeta(@, "cellCount", Len(cells))]
         IN IF \E i \in 1..Len(cells) : cells[i].isNull
            THEN NotebookFailed(counted)
            ELSE [counted EXCEPT !.text = Join(CellsParts(cells, 1), <<"\n">>)]

Languages(kernelspecLanguage, languageInfoName) ==
    [kernelspecLanguage |-> kernelspecLanguage, languageInfoName |-> languageInfoName]

\* what JSON.parse can return for a notebook file
Notebooks ==
    { NullNotebook,
      Notebook(None, None),
      Notebook(Some(Languages("", "")), Some(<<>>)),
      Notebook(Some(Languages("python", "")),
               Some(<< Cell("markdown", Some(ArrayValue(<< <<"#">>, <<"t">> >>)), None),
                       Cell("code", Some(StringValue(<<"1">>)),
                            Some(<< Output(Some(StringValue(<<"o">>)), None, "", ""),
                                    Output(None, Some(Some(ArrayValue(<< <<"p">> >>))), "", ""),
                                    Output(None, Some(None), "E", "v"),
                                    Output(None, None, "E", "v"),
                                    Output(None, None, "", "") >>)) >>)),
      Notebook(Some(Languages("", "r")),
               Some(<< Cell("", Some(StringValue(<<>>)), Some(<<>>)),
                       Cell("code", Some(ArrayValue(<<>>)),
                            Some(<< Output(Some(StringValue(<<>>)), None, "E", "") >>)) >>)),
      Notebook(None, Some(<< Cell("code", None, None), NullCell >>)) }

ExtractNotebook ==
    /\ pc = "notebook"
    /\ \/ \* file.text() rejects or JSON.parse throws
          /\ result' = NotebookFailed(result)
          /\ answer' = None
       \/ \E notebook \in Notebooks :
             /\ result' = NotebookExtracted(result, notebook)
             /\ answer' = Some(notebook)
    /\ pc' = "classify"
    /\ UNCHANGED <<file, thrown, pdfVars, classifyVars, calls, app, sw>>

(***************************************************************************)
(* extractPDF (lines 102-172).                                             *)
(*                                                                         *)
(* pdfTask is the pdf.js loading task: "none" before getDocument,          *)
(* "pending" while loading, "open" once it resolved to a document,         *)
(* "failed" once it rejected, "destroyed" after destroy().                 *)
(* timer is the 30 s timeout: "unset", "armed", "fired".                   *)
(***************************************************************************)
\* line 136: a jump of the vertical coordinate larger than this starts a line
LINE_JUMP == 5

Abs(n) == IF n < 0 THEN -n ELSE n

\* an item of textContent.items: a TextItem (hasStr) with its str and the
\* vertical coordinate transform[5], or marked content without a str
TextItem(str, y) == [hasStr |-> TRUE, str |-> str, y |-> y]
MarkedContent == [hasStr |-> FALSE, str |-> <<>>, y |-> 0]

\* lines 129-145: the text of a page from its items; lastY is None or Some(y)
RECURSIVE PageTextFrom(_, _, _)
PageTextFrom(items, pageText, lastY) ==
    IF items = <<>> THEN pageText
    ELSE LET item == Head(items)
         IN IF item.hasStr
            THEN LET sep ==
                        IF lastY # None /\ Abs(item.y - lastY[1]) > LINE_JUMP
                        THEN <<"\n">>
                        ELSE IF /\ lastY # None
                                /\ Len(pageText) > 0
                                /\ pageText[Len(pageText)] # " "
                        THEN <<" ">>
                        ELSE <<>>
                 IN PageTextFrom(Tail(items), pageText \o sep \o item.str, Some(item.y))
            ELSE PageTextFrom(Tail(items), pageText, lastY)

PageText(items) == PageTextFrom(items, <<>>, None)

PageMarker(i) == "--- Page " \o ToString(i) \o " ---"
PAGE_UNREADABLE == "[UNREADABLE: Page extraction failed]"
PDF_UNREADABLE == "[UNREADABLE: PDF extraction failed]"
PageWarning(i) == "Page " \o ToString(i) \o ": Extraction error - possible corruption"

\* what pdf.js can answer for a page: its items
PageContents ==
    { <<>>,
      <<TextItem(<<"a">>, 10)>>,
      <<TextItem(<<"a">>, 10), MarkedContent, TextItem(<<"b">>, 12)>>,
      <<TextItem(<<" ", "a", " ">>, 20), TextItem(<<"b">>, 10)>> }

\* lines 147-152: page i was read
PageRead(r, parts, i, items) ==
    [ result |-> [r EXCEPT !.pages = Some(Append(@[1],
                        [pageNumber |-> i, text |-> Trim(PageText(items))]))],
      textParts |-> Append(parts, <<PageMarker(i), "\n">> \o Trim(PageText(items))) ]

\* faulty variant: the page fault is recorded as an error
PageFailedAsError(r, parts, i) ==
    [ result |-> [r EXCEPT !.errors = Append(@, PageWarning(i)),
                           !.pages = Some(Append(@[1],
                                [pageNumber |-> i, text |-> <<PAGE_UNREADABLE>>]))],
      textParts |-> Append(parts, <<PageMarker(i), "\n", PAGE_UNREADABLE>>) ]

\* lines 153-160: getPage or getTextContent threw for page i
PageFailed(r, parts, i) ==
    [ result |-> [r EXCEPT !.warnings = Append(@, PageWarning(i)),
                           !.pages = Some(Append(@[1],
                                [pageNumber |-> i, text |-> <<PAGE_UNREADABLE>>]))],
      textParts |-> Append(parts, <<PageMarker(i), "\n", PAGE_UNREADABLE>>) ]

\* lines 167-171: the catch block of extractPDF
PDFFailed(r, fault) ==
    [r EXCEPT !.errors = Append(@, "PDF extraction failed: " \o ErrorMessage(fault)),
              !.text = <<PDF_UNREADABLE>>]

TimedOut == [isError |-> TRUE, message |-> "PDF loading timed out"]

\* lines 104-115: the bytes are read, the loading task is created and the
\* timer is armed; or reading the bytes (or getDocument) throws
PDFRead ==
    /\ pc = "pdf_read"
    /\ \/ /\ pdfTask' = "pending"
          /\ timer' = "armed"
          /\ pc' = "pdf_race"
          /\ result' = result
       \/ \E fault \in Faults :
          /\ result' = PDFFailed(result, fault)
          /\ pc' = "classify"
          /\ UNCHANGED <<pdfTask, timer>>
    /\ UNCHANGED <<file, thrown, numPages, pageIdx, textParts, pageEnv, classifyVars, answer, calls, app, sw>>

\* lines 117-122: the load wins the race
PDFLoaded ==
    /\ pc = "pdf_race"
    /\ pdfTask = "pending"
    /\ \E n \in 1..MaxPages :
          /\ numPages' = n
          /\ result' = [result EXCEPT !.metadata = SetMeta(@, "pageCount", n),
                                      !.pages = Some(<<>>)]
    /\ pdfTask' = "open"
    /\ textParts' = <<>>
    /\ pageIdx' = 1
    /\ pc' = "pdf_page"
    /\ UNCHANGED <<file, thrown, timer, pageEnv, classifyVars, answer, calls, app, sw>>

\* line 117: the load rejects before the timer fires
PDFLoadFailed ==
    /\ pc = "pdf_race"
    /\ pdfTask = "pending"
    /\ \E fault \in Faults : result' = PDFFailed(result, fault)
    /\ pdfTask' = "failed"
    /\ pc' = "classify"
    /\ UNCHANGED <<file, thrown, timer, numPages, pageIdx, textParts, pageEnv, classifyVars, answer, calls, app, sw>>

\* lines 113-117: the timer fires while the load is pending; the race rejects
\* and the loading task is left as it is
PDFTimeout ==
    /\ pc = "pdf_race"
    /\ pdfTask = "pending"
    /\ timer = "armed"
    /\ timer' = "fired"
    /\ result' = PDFFailed(result, TimedOut)
    /\ pc' = "classify"
    /\ UNCHANGED <<file, thrown, pdfTask, numPages, pageIdx, textParts, pageEnv, classifyVars, answer, calls, app, sw>>

\* lines 124-161: one iteration of the page loop
PDFPage ==
    /\ pc = "pdf_page"
    /\ pageIdx <= numPages
    /\ \/ \E items \in PageContents :
          LET next == PageRead(result, textParts, pageIdx, items)
          IN /\ result' = next.result
             /\ textParts' = next.textParts
             /\ pageEnv' = Append(pageEnv, [failed |-> FALSE, items |-> items])
       \/ LET next == PageFailed(result, textParts, pageIdx)
          IN /\ result' = next.result
             /\ textParts' = next.textParts
             /\ pageEnv' = Append(pageEnv, [failed |-> TRUE, items |-> <<>>])
    /\ pageIdx' = pageIdx + 1
    /\ UNCHANGED <<file, pc, thrown, pdfTask, timer, numPages, classifyVars, answer, calls, app, sw>>

\* lines 163-171: after the loop the text is joined and the document is
\* destroyed; when destroy() rejects the catch block of extractPDF runs, and
\* the document may or may not have been released
PDFFinish ==
    /\ pc = "pdf_page"
    /\ pageIdx > numPages
    /\ LET joined == [result EXCEPT !.text = Join(textParts, <<"\n", "\n">>)]
       IN \/ /\ result' = joined
             /\ pdfTask' = "destroyed"
          \/ \E fault \in Faults :
             /\ result' = PDFFailed(joined, fault)
             /\ pdfTask' \in {"open", "destroyed"}
    /\ pc' = "classify"
    /\ UNCHANGED <<file, thrown, timer, numPages, pageIdx, textParts, pageEnv, classifyVars, answer, calls, app, sw>>

\* faulty variant: the late rejection reaches the catch block of extractPDF
TimerFiresLateCaught ==
    /\ timer = "armed"
    /\ pc # "pdf_race"
    /\ timer' = "fired"
    /\ result' = PDFFailed(result, TimedOut)
    /\ UNCHANGED <<file, pc, thrown, pdfTask, numPages, pageIdx, textParts,
                   pageEnv, classifyVars, answer, calls, app, sw>>

\* the timer fires after the race was settled by the load: the rejection of
\* the timeout promise is already handled by Promise.race and changes nothing
TimerFiresLate ==
    /\ timer = "armed"
    /\ pc # "pdf_race"
    /\ timer' = "fired"
    /\ UNCHANGED <<file, pc, result, thrown, pdfTask, numPages, pageIdx, textParts,
                   pageEnv, classifyVars, answer, calls, app, sw>>

\* the load abandoned by the timeout completes in the background
PDFLoadSettlesLate ==
    /\ pdfTask = "pending"
    /\ pc # "pdf_race"
    /\ pdfTask' \in {"open", "failed"}
    /\ UNCHANGED <<file, pc, result, thrown, timer, numPages, pageIdx, textParts,
                   pageEnv, classifyVars, answer, calls, app, sw>>

(***************************************************************************)
(* One call of extractText.                                                *)
(***************************************************************************)
\* the files given to extractText: for each strategy, names that select it
\* and contents that exercise it; the bytes of a file parsed by a library
\* (pdf.js, mammoth, XLSX, Tesseract) are opaque, the library's answer is
\* chosen where it is called
PlainNames ==
    { <<"e", "m", "p", "t", "y", ".", "t", "x", "t">>,
      <<"a", ".", "o", "d", "t">>,
      <<"a", ".", "c", "s", "v">>,
      <<"a", ".", "J", "S">> }

PlainContents ==
    { <<>>,
      <<"a">>,
      <<" ", "b", "\n", REPLACEMENT_CHAR>> }

ParsedNames ==
    { <<"r", "e", "p", "o", "r", "t", ".", "p", "d", "f">>,
      <<"a", ".", "d", "o", "c", "x">>,
      <<"a", ".", "d", "o", "c">>,
      <<"a", ".", "x", "l", "s", "x">>,
      <<"a", ".", "p", "n", "g">>,
      <<"a", ".", "i", "p", "y", "n", "b">> }

RTFNames == { <<"a", ".", "r", "t", "f">> }

RTFContents ==
    { <<>>,
      <<"{", "\\", "r", "t", "f", "1", " ", "a", "\\", "p", "a", "r", " ", "b", "}">>,
      <<"a", "\\", "p", "a", "r", "\n", "b", "\n", "\n", "\n", "\n", "c">>,
      <<"a", "\\", "p", "a", "r", " ", "b">>,
      <<"{", "\\", "b", " ", "x", "}", " ", "y", "}">> }

UnknownNames ==
    { <<"a", ".", "z", "i", "p">>,
      <<"R", "E", "A", "D", "M", "E">> }

\* contents longer than the sample of line 475: LONG_TAIL characters after
\* the sample, and LONG_HEAD control characters, just over a tenth of the
\* sample, at the start
LONG_TAIL == BINARY_SAMPLE \div 5
LONG_HEAD == BINARY_SAMPLE \div 10 + 1
LONG_WORD == <<"a", "b", "c", "d", "e", "f", "g", "h", "i", "j", "k", "l">>

UnknownContents ==
    { <<>>,
      <<"h", "i">>,
      <<"P", "K", "x">>,
      <<NUL_CHAR, NUL_CHAR, "a", "b", "c", "d", "e", "f", "g", "h", "i", "j", "k", "l">>,
      <<NUL_CHAR, "a">>,
      <<"\f", "a", "b">>,
      <<NUL_CHAR, "a", NUL_CHAR, "b", NUL_CHAR, "c", NUL_CHAR, "d", NUL_CHAR, "e", NUL_CHAR, "f">>,
      <<NUL_CHAR, "a", "b", "c", "d", "e", "f", "g", "h", "i">>,
      [i \in 1..(BINARY_SAMPLE + LONG_TAIL) |-> IF i <= BINARY_SAMPLE THEN "a" ELSE NUL_CHAR],
      [i \in 1..(BINARY_SAMPLE + LONG_TAIL) |->
          IF i <= LONG_HEAD THEN NUL_CHAR
          ELSE IF i <= LONG_HEAD + Len(LONG_WORD) THEN LONG_WORD[i - LONG_HEAD] ELSE " "],
      <<"P", "K", NUL_CHAR, NUL_CHAR>> }

LastModifieds == {0, MAX_DATE_DAYS, MAX_DATE_DAYS + 1}

Files ==
    [name : PlainNames, content : PlainContents, lastModified : {0}]
    \cup [name : { <<"a", ".", "h", "t", "m", "l">> }, content : {doc.content : doc \in HtmlDocuments},
          lastModified : {0}]
    \cup [name : { <<"d", "a", "t", "a", ".", "j", "s", "o", "n">> }, content : {doc.content : doc \in JsonDocuments},
          lastModified : {0}]
    \cup [name : ParsedNames, content : {<<"a">>}, lastModified : {0}]
    \cup [name : RTFNames, content : RTFContents, lastModified : {0}]
    \cup [name : UnknownNames, content : UnknownContents, lastModified : {0}]
    \cup [name : {<<"e", "m", "p", "t", "y", ".", "t", "x", "t">>},
          content : {<<"a">>}, lastModified : LastModifieds]

ClassifyIdle ==
    /\ cName = <<>>
    /\ cExt = <<>>
    /\ cCategory = "pending"
    /\ cDone = FALSE

Init ==
    /\ file \in Files
    /\ pc = "start"
    /\ result = NoResult
    /\ thrown = None
    /\ pdfTask = "none"
    /\ timer = "unset"
    /\ numPages = 0
    /\ pageIdx = 0
    /\ textParts = <<>>
    /\ pageEnv = <<>>
    /\ answer = None
    /\ calls = NoCalls
    /\ app = NoApp
    /\ sw = NoWorker
    /\ ClassifyIdle

Next ==
    \/ Begin
    \/ ExtractPlain
    \/ ExtractDefaultDocument
    \/ ExtractCode
    \/ ExtractDOCX
    \/ ExtractExcel
    \/ ExtractImage
    \/ ExtractRTF
    \/ ExtractHTML
    \/ ExtractJSON
    \/ ExtractNotebook
    \/ ExtractUnknown
    \/ PDFRead
    \/ PDFLoaded
    \/ PDFLoadFailed
    \/ PDFTimeout
    \/ PDFPage
    \/ PDFFinish
    \/ TimerFiresLate
    \/ PDFLoadSettlesLate
    \/ Classified
    \/ CatchEscaped

Spec == Init /\ [][Next]_vars

(***************************************************************************)
(* Concurrent calls of extractText (part_004 line 130 starts one per file  *)
(* of each selection).  A step is the code between two awaits.  Every      *)
(* call has its own result object (line 17) and its own locals (line 122); *)
(* env is the history of what the file reads and pdf.js answered to it.    *)
(***************************************************************************)
NumCalls == 2
Calls == 1..NumCalls

\* the file of each call: a PDF for the odd calls, a text file for the others
CallFile(i) ==
    IF i % 2 = 1
    THEN [name |-> <<"f", DigitChars[i + 1], ".", "p", "d", "f">>,
          content |-> <<"a">>, lastModified |-> 0]
    ELSE [name |-> <<"f", DigitChars[i + 1], ".", "t", "x", "t">>,
          content |-> <<"t", DigitChars[i + 1]>>, lastModified |-> 0]

NoEnv == [read |-> None, load |-> None, loaded |-> FALSE, pages |-> <<>>, destroy |-> None]

NewCall(i) ==
    [ file |-> CallFile(i), pc |-> "start", result |-> NoResult, thrown |-> None,
      numPages |-> 0, pageIdx |-> 0, textParts |-> <<>>, env |-> NoEnv ]

\* what pdf.js answers for a page of a concurrent call
ConcurrentPageContents == { <<TextItem(<<"a">>, 10)>> }
ConcurrentFaults == { [isError |-> TRUE, message |-> "boom"] }

\* faulty variant: one result object shared by all calls
SharedResult(cs, i) == cs[1].result

\* line 17: the result object a call works on is the one it created
OwnResult(cs, i) == cs[i].result

\* lines 13-52 up to the first await
CBegin(i) ==
    /\ calls[i].pc = "start"
    /\ LET f == calls[i].file
           r == NewResult(f)
           ext == getFileExtension(f.name)
       IN calls' = [calls EXCEPT ![i].result = [r EXCEPT !.warnings = HeadWarnings(r.category, ext)],
                                 ![i].pc = Route(r.category, ext)]

\* lines 84-88
CPlain(i) ==
    /\ calls[i].pc = "plain"
    /\ \/ calls' = [calls EXCEPT
                       ![i].result = [OwnResult(calls, i) EXCEPT !.text = calls[i].file.content],
                       ![i].pc = "classify"]
       \/ \E fault \in ConcurrentFaults :
             calls' = [calls EXCEPT ![i].thrown = Some(fault),
                                    ![i].env.read = Some(fault),
                                    ![i].pc = "catch"]

\* lines 104-115
CPDFRead(i) ==
    /\ calls[i].pc = "pdf_read"
    /\ \/ calls' = [calls EXCEPT ![i].pc = "pdf_race"]
       \/ \E fault \in ConcurrentFaults :
             calls' = [calls EXCEPT ![i].result = PDFFailed(OwnResult(calls, i), fault),
                                    ![i].env.read = Some(fault),
                                    ![i].pc = "classify"]

\* lines 117-122 and 167-171: the race is won by the load, or lost
CPDFRace(i) ==
    /\ calls[i].pc = "pdf_race"
    /\ \/ \E n \in 1..MaxPages :
             calls' = [calls EXCEPT
                          ![i].result = [OwnResult(calls, i) EXCEPT
                                            !.metadata = SetMeta(@, "pageCount", n),
                                            !.pages = Some(<<>>)],
                          ![i].numPages = n,
                          ![i].pageIdx = 1,
                          ![i].textParts = <<>>,
                          ![i].env.loaded = TRUE,
                          ![i].pc = "pdf_page"]
       \/ \E fault \in ConcurrentFaults \cup {TimedOut} :
             calls' = [calls EXCEPT ![i].result = PDFFailed(OwnResult(calls, i), fault),
                                    ![i].env.load = Some(fault),
                                    ![i].pc = "classify"]

\* lines 124-161: one iteration of the page loop
CPDFPage(i) ==
    /\ calls[i].pc = "pdf_page"
    /\ calls[i].pageIdx <= calls[i].numPages
    /\ \/ \E items \in ConcurrentPageContents :
             LET next == PageRead(OwnResult(calls, i), calls[i].textParts, calls[i].pageIdx, items)
             IN calls' = [calls EXCEPT
                             ![i].result = next.result,
                             ![i].textParts = next.textParts,
                             ![i].pageIdx = @ + 1,
                             ![i].env.pages = Append(@, [failed |-> FALSE, items |-> items])]
       \/ LET next == PageFailed(OwnResult(calls, i), calls[i].textParts, calls[i].pageIdx)
          IN calls' = [calls EXCEPT
                          ![i].result = next.result,
                          ![i].textParts = next.textParts,
                          ![i].pageIdx = @ + 1,
                          ![i].env.pages = Append(@, [failed |-> TRUE, items |-> <<>>])]

\* lines 163-171
CPDFFinish(i) ==
    /\ calls[i].pc = "pdf_page"
    /\ calls[i].pageIdx > calls[i].numPages
    /\ LET joined == [OwnResult(calls, i) EXCEPT
                         !.text = Join(calls[i].textParts, <<"\n", "\n">>)]
       IN \/ calls' = [calls EXCEPT ![i].result = joined, ![i].pc = "classify"]
          \/ \E fault \in ConcurrentFaults :
                calls' = [calls EXCEPT ![i].result = PDFFailed(joined, fault),
                                       ![i].env.destroy = Some(fault),
                                       ![i].pc = "classify"]

\* lines 54-60, 66-67
CClassified(i) ==
    /\ calls[i].pc = "classify"
    /\ \E t \in 0..MaxElapsed :
          calls' = [calls EXCEPT
                       ![i].result = [OwnResult(calls, i) EXCEPT
                                         !.status = StatusOf(OwnResult(calls, i)),
                                         !.processingTime = t],
                       ![i].pc = "done"]

\* lines 61-64, 66-67
CCatchEscaped(i) ==
    /\ calls[i].pc = "catch"
    /\ \E t \in 0..MaxElapsed :
          calls' = [calls EXCEPT
                       ![i].result = [Caught(OwnResult(calls, i), calls[i].thrown[1]) EXCEPT
                                         !.processingTime = t],
                       ![i].pc = "done"]

ConcurrentInit ==
    /\ calls = [i \in Calls |-> NewCall(i)]
    /\ app = NoApp
    /\ sw = NoWorker
    /\ ExtractIdle
    /\ ClassifyIdle

ConcurrentNext ==
    /\ \E i \in Calls :
          \/ CBegin(i)
          \/ CPlain(i)
          \/ CPDFRead(i)
          \/ CPDFRace(i)
          \/ CPDFPage(i)
          \/ CPDFFinish(i)
          \/ CClassified(i)
          \/ CCatchEscaped(i)
    /\ UNCHANGED <<extractVars, classifyVars, app, sw>>

SpecConcurrent == ConcurrentInit /\ [][ConcurrentNext]_vars

(***************************************************************************)
(* Identifiers (utils/fileUtils generateId, lines 108-110) and the lists   *)
(* of the App component that are keyed by them (part_004).                 *)
(***************************************************************************)
MaxEntries == 2

\* what Math.random().toString(36) can give: "0" for 0, "0.i" for 0.5, and
\* longer fractions
RandomStrings ==
    { <<"0">>,
      <<"0", ".", "i">>,
      <<"0", ".", "4", "f", "z", "y", "o", "8", "2", "m", "v", "y", "r">>,
      <<"0", ".", "x", "k", "3", "q", "9", "w", "1", "e", "7", "t", "z", "b", "c", "d">> }

ID_START == 2
ID_END == 15

\* s.substring(start, end), positions counted from 0
Substring(s, start, end) ==
    LET to == IF end < Len(s) THEN end ELSE Len(s)
    IN IF start >= to THEN <<>> ELSE SubSeq(s, start + 1, to)

\* line 109, for what Math.random().toString(36) gave
generateId(random) == Substring(random, ID_START, ID_END)

FileNames == { <<"a", ".", "t", "x", "t">>, <<"b", ".", "p", "d", "f">> }

\* what extractText resolves with, as far as the app reads it
Extractions ==
    { [text |-> <<"a", "A">>, status |-> "success", category |-> "document"],
      [text |-> <<"a">>, status |-> "partial", category |-> "image"] }

\* what is typed into the search box, and the filter buttons that are clicked
SearchQueries == { <<>>, <<"a">>, <<"A", "a">> }
StatusFilters == {"all", "success", "error"}
CategoryFilters == {"all", "image"}

\* s.filter(e => e.id !== id)
RECURSIVE WithoutId(_, _)
WithoutId(entries, id) ==
    IF entries = <<>> THEN <<>>
    ELSE (IF Head(entries).id # id THEN <<Head(entries)>> ELSE <<>>)
         \o WithoutId(Tail(entries), id)

\* String.prototype.includes
includes(s, part) ==
    \E p \in 0..(Len(s) - Len(part)) : SubSeq(s, p + 1, p + Len(part)) = part

\* part_004 lines 38-46, for one result
Filtered(w, r) ==
    LET matchesSearch ==
            \/ w.searchQuery = <<>>
            \/ includes(toLowerCase(r.text), toLowerCase(w.searchQuery))
            \/ includes(toLowerCase(r.fileName), toLowerCase(w.searchQuery))
        matchesStatus == w.statusFilter = "all" \/ r.status = w.statusFilter
        matchesCategory == w.categoryFilter = "all" \/ r.category = w.categoryFilter
    IN matchesSearch /\ matchesStatus /\ matchesCategory

\* part_004 lines 37-46
filteredResults(w) == SelectSeq(w.results, LAMBDA r : Filtered(w, r))

\* text.match(new RegExp(escapeRegExp(query), 'gi')) of lines 53 and 56-57:
\* the number of occurrences of the query taken literally, without regard
\* to case, found from left to right without overlap
RECURSIVE Matches(_, _)
Matches(text, query) ==
    IF Len(text) < Len(query) \/ query = <<>> THEN 0
    ELSE IF toLowerCase(SubSeq(text, 1, Len(query))) = toLowerCase(query)
    THEN 1 + Matches(SubSeq(text, Len(query) + 1, Len(text)), query)
    ELSE Matches(Tail(text), query)

RECURSIVE TotalOf(_, _)
TotalOf(listed, query) ==
    IF listed = <<>> THEN 0
    ELSE Matches(Head(listed).text, query) + TotalOf(Tail(listed), query)

\* part_004 lines 49-63
totalMatches(w) ==
    IF w.searchQuery = <<>> THEN 0 ELSE TotalOf(filteredResults(w), w.searchQuery)

PROGRESS_STEP == 10
PROGRESS_CAP == 90

\* part_004 lines 120-126: one firing of the interval of processingId
Progressed(queue, processingId) ==
    [k \in 1..Len(queue) |->
        IF queue[k].id = processingId
        THEN [queue[k] EXCEPT !.progress = IF @ + PROGRESS_STEP < PROGRESS_CAP
                                           THEN @ + PROGRESS_STEP ELSE PROGRESS_CAP]
        ELSE queue[k]]

\* part_004 lines 144-155
ErrorResult(job, random) ==
    [id |-> generateId(random), fileName |-> job.name, text |-> <<>>,
     status |-> "error", category |-> "unknown", key |-> job.key]

\* the state of AppContent (part_004 lines 27-32) and the calls of
\* handleFilesSelected that are under way: a batch is the files a call has
\* still to go through, the first of them being the one extractText is
\* working on.  key numbers the files in the order they were selected;
\* files keeps, for every key, how far the call of extractText is, what
\* became of the interval and how many results were listed for the file;
\* removed is the number of results the last removal took away
AppInit ==
    /\ app = [results |-> <<>>, processingFiles |-> <<>>, batches |-> <<>>,
              files |-> <<>>, removed |-> 0,
              searchQuery |-> <<>>, statusFilter |-> "all", categoryFilter |-> "all",
              currentMatchIndex |-> 0]
    /\ calls = NoCalls
    /\ sw = NoWorker
    /\ ExtractIdle
    /\ ClassifyIdle

\* part_004 lines 119-130: an iteration of the loop sets the interval of its
\* file and calls extractText
Started == [call |-> "pending", interval |-> "set", listed |-> 0]

\* part_004 lines 103-130: the files get their queue entries, the interval
\* of the first file is set and extractText is called for it.  FileDropZone
\* (lines 45-48) passes at least one file
handleFilesSelected ==
    \E n \in 1..(MaxEntries - Len(app.files)) :
        \E names \in [1..n -> FileNames], randoms \in [1..n -> RandomStrings] :
            LET newProcessingFiles ==
                    [k \in 1..n |-> [id |-> generateId(randoms[k]), name |-> names[k],
                                     progress |-> 0, key |-> Len(app.files) + k]]
                batch == [k \in 1..n |-> [key |-> Len(app.files) + k,
                                          id |-> newProcessingFiles[k].id,
                                          name |-> names[k]]]
                waiting == [k \in 1..n |->
                               IF k = 1 THEN Started
                               ELSE [call |-> "waiting", interval |-> "none", listed |-> 0]]
            IN app' = [app EXCEPT !.processingFiles = @ \o newProcessingFiles,
                                  !.batches = Append(@, batch),
                                  !.files = @ \o waiting,
                                  !.removed = 0]

\* part_004 lines 119-127: the interval of the file that is being extracted
\* fires
ProgressInterval ==
    \E b \in 1..Len(app.batches) :
        LET job == Head(app.batches[b])
        IN /\ app.files[job.key].interval = "set"
           /\ app.files[job.key].call = "pending"
           /\ app' = [app EXCEPT !.processingFiles = Progressed(@, job.id),
                                 !.removed = 0]

\* part_004 line 130 with extractors.ts lines 12-67: the call of extractText
\* settles, with a result or with a rejection
extractTextSettled ==
    \E b \in 1..Len(app.batches), settled \in {"resolved", "rejected"} :
        LET job == Head(app.batches[b])
        IN /\ app.files[job.key].call = "pending"
           /\ app' = [app EXCEPT !.files[job.key].call = settled, !.removed = 0]

\* a sequence without its k-th entry
WithoutIndex(seq, k) == SubSeq(seq, 1, k - 1) \o SubSeq(seq, k + 1, Len(seq))

ContinuedQueued(w, b, listedResult) ==
    LET job == Head(w.batches[b])
        rest == Tail(w.batches[b])
        handled == [w EXCEPT !.results = <<listedResult>> \o @,
                             !.files[job.key].call = "handled",
                             !.files[job.key].interval = "cleared",
                             !.files[job.key].listed = @ + 1,
                             !.removed = 0]
    IN IF rest = <<>>
       THEN [handled EXCEPT !.batches = WithoutIndex(@, b)]
       ELSE [handled EXCEPT !.batches[b] = rest,
                            !.files[Head(rest).key] = Started]

\* part_004 lines 132-156 and 114-130: after the await the interval is
\* cleared, the queue entries with the id of the file are dropped, the
\* result is put in front of the results, and the loop goes on to the next
\* file of the batch or the call returns
Continued(w, b, listedResult) ==
    LET job == Head(w.batches[b])
        rest == Tail(w.batches[b])
        handled == [w EXCEPT !.processingFiles = WithoutId(@, job.id),
                             !.results = <<listedResult>> \o @,
                             !.files[job.key].call = "handled",
                             !.files[job.key].interval = "cleared",
                             !.files[job.key].listed = @ + 1,
                             !.removed = 0]
    IN IF rest = <<>>
       THEN [handled EXCEPT !.batches = WithoutIndex(@, b)]
       ELSE [handled EXCEPT !.batches[b] = rest,
                            !.files[Head(rest).key] = Started]

\* part_004 lines 130-138: the call resolved, with a result that carries a
\* new id (extractors.ts line 18)
ExtractionResolved ==
    \E b \in 1..Len(app.batches), e \in Extractions, random \in RandomStrings :
        LET job == Head(app.batches[b])
        IN /\ app.files[job.key].call = "resolved"
           /\ app' = Continued(app, b, [id |-> generateId(random), fileName |-> job.name,
                                        text |-> e.text, status |-> e.status,
                                        category |-> e.category, key |-> job.key])

\* part_004 lines 139-156: the call rejected and an error result with a new
\* id is listed
ExtractionRejected ==
    \E b \in 1..Len(app.batches), random \in RandomStrings :
        LET job == Head(app.batches[b])
        IN /\ app.files[job.key].call = "rejected"
           /\ app' = Continued(app, b, ErrorResult(job, random))

\* part_004 lines 161-165, for the id of a listed result
handleRemoveResult ==
    \E k \in 1..Len(app.results) :
        LET id == app.results[k].id
        IN app' = [app EXCEPT !.results = WithoutId(@, id),
                              !.currentMatchIndex = 0,
                              !.removed = Len(app.results) - Len(WithoutId(app.results, id))]

\* part_004 lines 167-171; the button is shown with the results (line 264)
handleClearAll ==
    /\ app.results # <<>>
    /\ app' = [app EXCEPT !.results = <<>>,
                          !.searchQuery = <<>>,
                          !.currentMatchIndex = 0,
                          !.removed = 0]

\* part_004 lines 79-82; SearchFilter is shown with the results (line 264)
handleSearchChange ==
    /\ app.results # <<>>
    /\ \E query \in SearchQueries :
          app' = [app EXCEPT !.searchQuery = query,
                             !.currentMatchIndex = 0,
                             !.removed = 0]

\* part_004 lines 91-101, from the arrows and the Enter key of SearchFilter
\* (part_003 lines 32-43 and 94-112), which need a query
handleNavigateMatch ==
    /\ app.results # <<>>
    /\ app.searchQuery # <<>>
    /\ \E direction \in {"prev", "next"} :
          LET total == totalMatches(app)
              prev == app.currentMatchIndex
          IN IF total = 0 THEN app' = [app EXCEPT !.removed = 0]
             ELSE app' = [app EXCEPT
                             !.currentMatchIndex =
                                 IF direction = "next" THEN (prev + 1) % total
                                 ELSE IF prev = 0 THEN total - 1 ELSE prev - 1,
                             !.removed = 0]

\* part_004 lines 30 and 273: a status button of SearchFilter
setStatusFilter ==
    /\ app.results # <<>>
    /\ \E status \in StatusFilters :
          app' = [app EXCEPT !.statusFilter = status, !.removed = 0]

\* part_004 lines 31 and 275: a category button of SearchFilter
setCategoryFilter ==
    /\ app.results # <<>>
    /\ \E category \in CategoryFilters :
          app' = [app EXCEPT !.categoryFilter = category, !.removed = 0]

\* the app while the search bar is left alone
AppNext ==
    /\ \/ handleFilesSelected
       \/ ProgressInterval
       \/ extractTextSettled
       \/ ExtractionResolved
       \/ ExtractionRejected
       \/ handleRemoveResult
       \/ handleClearAll
    /\ UNCHANGED <<extractVars, classifyVars, calls, sw>>

SpecApp == AppInit /\ [][AppNext]_vars

\* the continuation of handleFilesSelected is a job of the microtask queue,
\* which the event loop drains
AppFairness ==
    WF_vars((ExtractionResolved \/ ExtractionRejected)
            /\ UNCHANGED <<extractVars, classifyVars, calls, sw>>)

FairSpecApp == SpecApp /\ AppFairness

\* the app with its search bar
SearchNext ==
    \/ AppNext
    \/ /\ \/ handleSearchChange
          \/ handleNavigateMatch
          \/ setStatusFilter
          \/ setCategoryFilter
       /\ UNCHANGED <<extractVars, classifyVars, calls, sw>>

SpecSearch == AppInit /\ [][SearchNext]_vars

(***************************************************************************)
(* The service worker (public/sw.js) and the offline toggles               *)
(* (OfflineModeToggle, part_001 lines 63-223 and                           *)
(* components/OfflineModeToggle.tsx).  A URL is its href, character by     *)
(* character; a cache is the set of the URLs it holds a response for.      *)
(***************************************************************************)
MaxInFlight == 2

\* the origin the app is served from
ORIGIN == <<"h", "t", "t", "p", "s", ":", "/", "/", "a", ".", "b">>

\* sw.js lines 8-11, 14-17 and 20-22
urlsToCache == { <<"/">>, <<"/", "i", "n", "d", "e", "x", ".", "h", "t", "m", "l">> }
EXTERNAL_RESOURCES ==
    { <<"h", "t", "t", "p", "s", ":", "/", "/", "u", "n", "p", "k", "g", ".", "c", "o", "m", "/", "p", "d", "f", "j", "s", "-", "d", "i", "s", "t", "@">>,
      <<"h", "t", "t", "p", "s", ":", "/", "/", "c", "d", "n", ".", "j", "s", "d", "e", "l", "i", "v", "r", ".", "n", "e", "t", "/", "n", "p", "m", "/", "t", "e", "s", "s", "e", "r", "a", "c", "t", ".", "j", "s", "@">> }
OCR_RESOURCES == { <<"/", "t", "e", "s", "s", "d", "a", "t", "a", "/", "e", "n", "g", ".", "t", "r", "a", "i", "n", "e", "d", "d", "a", "t", "a">> }

\* sw.js lines 116-118 and 121-123
isExternalResource(url) == \E resource \in EXTERNAL_RESOURCES : includes(url, resource)
isOcrResource(url) == \E resource \in OCR_RESOURCES : includes(url, resource)

\* the key under which cache.addAll stores a path of the app
Resolve(path) == ORIGIN \o path

\* the caches of earlier versions that the toggle of OfflineModeToggle.tsx
\* opens (lines 22, 72 and 73)
OLD_STATIC_CACHE == "text-extractor-static-v3"
OLD_DYNAMIC_CACHE == "text-extractor-dynamic-v3"

ENABLE_OCR_OFFLINE == "ENABLE_OCR_OFFLINE"
ENABLE_OFFLINE_MODE == "ENABLE_OFFLINE_MODE"
MessageTypes == {ENABLE_OCR_OFFLINE, ENABLE_OFFLINE_MODE}

\* the requests the pages of the app make
RequestUrls ==
    { Resolve(<<"/", "i", "n", "d", "e", "x", ".", "h", "t", "m", "l">>),
      Resolve(<<"/", "t", "e", "s", "s", "d", "a", "t", "a", "/", "e", "n", "g", ".", "t", "r", "a", "i", "n", "e", "d", "d", "a", "t", "a">>),
      <<"h", "t", "t", "p", "s", ":", "/", "/", "u", "n", "p", "k", "g", ".", "c", "o", "m", "/", "p", "d", "f", "j", "s", "-", "d", "i", "s", "t", "@">> \o <<"3", "/", "w", ".", "j", "s">>,
      <<"h", "t", "t", "p", "s", ":", "/", "/", "c", "d", "n", ".", "j", "s", "d", "e", "l", "i", "v", "r", ".", "n", "e", "t", "/", "n", "p", "m", "/", "t", "e", "s", "s", "e", "r", "a", "c", "t", ".", "j", "s", "@">> \o <<"5", "/", "t", "e", "s", "s", "d", "a", "t", "a", "/", "e", "n", "g", ".", "t", "r", "a", "i", "n", "e", "d", "d", "a", "t", "a">> }
Methods == {"GET", "POST"}
\* what fetch(request) settles with: a status, or 0 when it rejects
NetworkOutcomes == {200, 404, 0}

\* the toggle of part_001 and the toggle of OfflineModeToggle.tsx, mounted
\* and idle
OcrToggleInit ==
    [pc |-> "idle", isLoading |-> FALSE, isOcrEnabled |-> FALSE, stored |-> FALSE]
ModeToggleInit ==
    [pc |-> "idle", isLoading |-> FALSE, isOfflineEnabled |-> FALSE, isCached |-> FALSE,
     stored |-> FALSE]

\* the worker script has been evaluated (line 24), nothing is cached
WorkerInit ==
    /\ sw = [ static |-> {}, dynamic |-> {}, names |-> {},
              ocrOfflineEnabled |-> FALSE,
              received |-> FALSE,
              adding |-> 0,
              notices |-> 0,
              inbox |-> <<>>,
              controller |-> FALSE,
              request |-> None,
              ocr |-> OcrToggleInit,
              mode |-> ModeToggleInit ]
    /\ calls = NoCalls
    /\ app = NoApp
    /\ ExtractIdle
    /\ ClassifyIdle

\* sw.js lines 26-37: cache.addAll(urlsToCache) resolves, or rejects and the
\* rejection is logged
Install ==
    \/ sw' = [sw EXCEPT !.static = @ \cup {Resolve(path) : path \in urlsToCache}]
    \/ sw' = sw

\* sw.js lines 39-113: what the fetch listener writes for a request whose
\* fetch settles with the outcome; request keeps the last request and the
\* cache its response was put in
FetchHandled(w, method, url, outcome) ==
    LET handled(cache) == [w EXCEPT !.request = Some([method |-> method, url |-> url,
                                                       outcome |-> outcome, cache |-> cache])]
    IN IF method # "GET" THEN handled("none")
       ELSE IF outcome = 200
       THEN IF isExternalResource(url)
            THEN [handled("dynamic") EXCEPT !.dynamic = @ \cup {url}]
            ELSE IF ~isOcrResource(url)
            THEN [handled("static") EXCEPT !.static = @ \cup {url}]
            ELSE handled("none")
       ELSE handled("none")

Fetch ==
    \E method \in Methods, url \in RequestUrls, outcome \in NetworkOutcomes :
        sw' = FetchHandled(sw, method, url, outcome)

\* sw.js lines 126-150: the message listener, up to the call of cache.addAll
MessageHandled(w, type) ==
    IF type = ENABLE_OCR_OFFLINE
    THEN [w EXCEPT !.ocrOfflineEnabled = TRUE, !.received = TRUE, !.adding = @ + 1]
    ELSE w

\* a message event of any type
Message ==
    /\ sw.adding < MaxInFlight
    /\ \E type \in MessageTypes : sw' = MessageHandled(sw, type)

\* sw.js lines 133-144: cache.addAll(OCR_RESOURCES) resolves and the clients
\* are notified
AddAllResolved ==
    /\ sw.adding > 0
    /\ sw.notices < MaxInFlight
    /\ sw' = [sw EXCEPT !.adding = @ - 1,
                        !.static = @ \cup {Resolve(path) : path \in OCR_RESOURCES},
                        !.notices = @ + 1]

\* sw.js lines 145-147: cache.addAll(OCR_RESOURCES) rejects
AddAllRejected ==
    /\ sw.adding > 0
    /\ sw' = [sw EXCEPT !.adding = @ - 1]

\* sw.js lines 152-167: the caches of other versions are deleted and the
\* open pages are claimed
Activate ==
    sw' = [sw EXCEPT !.names = {}, !.controller = TRUE]

WorkerNext ==
    /\ \/ Install
       \/ Fetch
       \/ Message
       \/ AddAllResolved
       \/ AddAllRejected
       \/ Activate
    /\ UNCHANGED <<extractVars, classifyVars, calls, app>>

SpecWorker == WorkerInit /\ [][WorkerNext]_vars

\* navigator.serviceWorker.controller.postMessage({ type })
Posted(w, type) == [w EXCEPT !.inbox = Append(@, type)]

\* part_001 lines 138-147: the wait is over, the flag is stored and the
\* toggle is enabled, whatever became of the message
OcrFinished(w) ==
    [w EXCEPT !.ocr.stored = TRUE, !.ocr.isOcrEnabled = TRUE, !.ocr.pc = "settle"]

\* part_001 lines 95-129: the button of the toggle is clicked (it is shown
\* while the toggle is neither loading nor enabled, lines 171-205)
enableOcrOffline ==
    /\ sw.ocr.pc = "idle"
    /\ ~sw.ocr.isLoading
    /\ ~sw.ocr.isOcrEnabled
    /\ Len(sw.inbox) < MaxInFlight
    /\ \E onLine \in BOOLEAN :
          IF ~onLine THEN sw' = sw
          ELSE IF sw.controller
          THEN sw' = [Posted(sw, ENABLE_OCR_OFFLINE) EXCEPT !.ocr.isLoading = TRUE,
                                                            !.ocr.pc = "wait8"]
          ELSE sw' = [sw EXCEPT !.ocr.isLoading = TRUE, !.ocr.pc = "wait1"]

\* part_001 lines 129-136: a second later the message is posted if a worker
\* controls the page by now, otherwise the toggle goes on without it
OcrRetried ==
    /\ sw.ocr.pc = "wait1"
    /\ Len(sw.inbox) < MaxInFlight
    /\ IF sw.controller
       THEN sw' = [Posted(sw, ENABLE_OCR_OFFLINE) EXCEPT !.ocr.pc = "wait8"]
       ELSE sw' = OcrFinished(sw)

\* part_001 lines 126 and 134, 138-147: the eight seconds are over
OcrWaited ==
    /\ sw.ocr.pc = "wait8"
    /\ sw' = OcrFinished(sw)

\* part_001 lines 144-147: the timer that ends the loading state
OcrSettled ==
    /\ sw.ocr.pc = "settle"
    /\ sw' = [sw EXCEPT !.ocr.isLoading = FALSE, !.ocr.pc = "idle"]

\* part_001 lines 81-87: the page gets the OCR_OFFLINE_ENABLED notice of the
\* worker
OcrNoticed ==
    /\ sw.notices > 0
    /\ sw' = [sw EXCEPT !.notices = @ - 1,
                        !.ocr.isOcrEnabled = TRUE,
                        !.ocr.isLoading = FALSE]

\* OfflineModeToggle.tsx lines 51-61
ModeFinished(w) ==
    [w EXCEPT !.mode.stored = TRUE, !.mode.isOfflineEnabled = TRUE,
              !.mode.isCached = TRUE, !.mode.pc = "settle"]

\* OfflineModeToggle.tsx lines 31-56: the button of the toggle is clicked
\* (it is shown while the toggle is neither loading nor enabled and cached,
\* lines 106-125)
enableOfflineMode ==
    /\ sw.mode.pc = "idle"
    /\ ~sw.mode.isLoading
    /\ ~(sw.mode.isOfflineEnabled /\ sw.mode.isCached)
    /\ Len(sw.inbox) < MaxInFlight
    /\ IF sw.controller
       THEN sw' = [Posted(sw, ENABLE_OFFLINE_MODE) EXCEPT !.mode.isLoading = TRUE,
                                                          !.mode.pc = "wait3"]
       ELSE sw' = [ModeFinished(sw) EXCEPT !.mode.isLoading = TRUE]

\* OfflineModeToggle.tsx lines 48-56: the three seconds are over
ModeWaited ==
    /\ sw.mode.pc = "wait3"
    /\ sw' = ModeFinished(sw)

\* OfflineModeToggle.tsx lines 58-61
ModeSettled ==
    /\ sw.mode.pc = "settle"
    /\ sw' = [sw EXCEPT !.mode.isLoading = FALSE, !.mode.pc = "idle"]

\* OfflineModeToggle.tsx lines 69-100: the enabled toggle is clicked; the
\* caches it opens and empties are those of the old version
disableOfflineMode ==
    /\ sw.mode.pc = "idle"
    /\ ~sw.mode.isLoading
    /\ sw.mode.isOfflineEnabled /\ sw.mode.isCached
    /\ sw' = [sw EXCEPT !.names = @ \cup {OLD_STATIC_CACHE, OLD_DYNAMIC_CACHE},
                        !.mode.stored = FALSE,
                        !.mode.isOfflineEnabled = FALSE,
                        !.mode.isCached = FALSE]

\* the page is loaded again: the timers of the old page are gone and both
\* toggles mount (part_001 lines 72-77, OfflineModeToggle.tsx lines 10-29);
\* checkCacheStatus opens the cache of the old version, which nothing fills
Reloaded ==
    sw' = [sw EXCEPT
              !.ocr = [pc |-> "idle", isLoading |-> FALSE,
                       isOcrEnabled |-> sw.ocr.stored, stored |-> sw.ocr.stored],
              !.mode = [pc |-> "idle", isLoading |-> FALSE,
                        isOfflineEnabled |-> sw.mode.stored, isCached |-> FALSE,
                        stored |-> sw.mode.stored],
              !.names = IF sw.mode.stored THEN @ \cup {OLD_STATIC_CACHE} ELSE @]

\* a message a toggle posted reaches the message listener of the worker
Delivered ==
    /\ sw.inbox # <<>>
    /\ sw.adding < MaxInFlight
    /\ sw' = [MessageHandled(sw, Head(sw.inbox)) EXCEPT !.inbox = Tail(sw.inbox)]

\* the worker and the two toggles
OfflineNext ==
    /\ \/ Install
       \/ Activate
       \/ Delivered
       \/ AddAllResolved
       \/ AddAllRejected
       \/ enableOcrOffline
       \/ OcrRetried
       \/ OcrWaited
       \/ OcrSettled
       \/ OcrNoticed
       \/ enableOfflineMode
       \/ ModeWaited
       \/ ModeSettled
       \/ disableOfflineMode
       \/ Reloaded
    /\ UNCHANGED <<extractVars, classifyVars, calls, app>>

SpecOffline == WorkerInit /\ [][OfflineNext]_vars

(***************************************************************************)
(* Properties of extractText.                                              *)
(***************************************************************************)
Returned == pc = "done"
TerminalStatuses == {"success", "partial", "error"}

\* C1: in every result extractText returns, also through its catch block:
\* no errors, no warnings and some text give status success; no errors, some
\* warnings and some text give partial; errors and some text give partial;
\* errors and no text give error.
StatusInvariant ==
    Returned =>
        /\ (result.errors = <<>> /\ result.warnings = <<>> /\ result.text # <<>>)
              => result.status = "success"
        /\ (result.errors = <<>> /\ result.warnings # <<>> /\ result.text # <<>>)
              => result.status = "partial"
        /\ (result.errors # <<>> /\ result.text # <<>>)
              => result.status = "partial"
        /\ (result.errors # <<>> /\ result.text = <<>>)
              => result.status = "error"

\* C1 witness: a result returned through the catch block, with errors and no text
StatusInvariantWitness ==
    /\ Returned
    /\ thrown # None
    /\ result.errors # <<>>
    /\ result.text = <<>>
    /\ result.status = "error"

\* C2: extractText never rejects: no call ends in a thrown fault.
NeverRejects == pc # "rejected"

\* C3: every returned result has a terminal status, and a result with no text
\* has status error with an error entry (the no-content case).
TerminalStatus ==
    Returned =>
        /\ result.status \in TerminalStatuses
        /\ result.text = <<>> => (result.status = "error" /\ result.errors # <<>>)

\* C4: every returned result has a non-empty text.
TextNeverEmpty == Returned => result.text # <<>>

\* C5: a fault that escapes the strategy is caught by extractText in one step
\* that appends exactly one error "Extraction failed: <message>" and returns
\* with status error.
EscapedFaultCaught ==
    [][pc = "catch" =>
          /\ pc' = "done"
          /\ result'.status = "error"
          /\ result'.errors =
                Append(result.errors, "Extraction failed: " \o ErrorMessage(thrown[1]))
          /\ result'.warnings = result.warnings
          /\ result'.text = result.text]_vars

\* C5 witness: a call returned after a strategy threw an Error with a message
EscapedFaultCaughtWitness ==
    /\ Returned
    /\ thrown = Some([isError |-> TRUE, message |-> "boom"])
    /\ result.errors = <<"Extraction failed: boom">>

(***************************************************************************)
(* Properties of the classifier.                                           *)
(***************************************************************************)
\* the characters after the last "." of a name that has one
RECURSIVE AfterLastDot(_)
AfterLastDot(s) ==
    IF s[Len(s)] = "." THEN <<>>
    ELSE AfterLastDot(SubSeq(s, 1, Len(s) - 1)) \o <<s[Len(s)]>>

HasDot(s) == \E i \in 1..Len(s) : s[i] = "."

\* C6: getFileCategory answers for every name; the answer is the table's
\* category when the name has a "." and the lowercased text after its last "."
\* is a key of the table, and unknown for every other name (no ".", nothing
\* after the last ".", a segment that is no key of the table).
ClassifierTotal ==
    cDone =>
        LET key == StrOf(toLowerCase(AfterLastDot(cName)))
        IN IF HasDot(cName) /\ key \in DOMAIN EXTENSION_MAP
           THEN cCategory = EXTENSION_MAP[key]
           ELSE cCategory = "unknown"

\* C6 witness: a name whose last segment is a property of Object.prototype
ClassifierTotalWitness ==
    /\ cDone
    /\ cName = <<"a", ".", "c", "o", "n", "s", "t", "r", "u", "c", "t", "o", "r">>
    /\ cCategory = "unknown"

\* C7: a file of a format of the README's table is classified into the
\* category of the format's row, and an image is routed to OCR.
ReadmeFormatsClassified ==
    cDone =>
        /\ (\E fmt \in ReadmeDocuments : cName \in FormatNames(fmt))
              => cCategory = "document"
        /\ (\E fmt \in ReadmeData : cName \in FormatNames(fmt))
              => cCategory = "data"
        /\ (\E fmt \in ReadmeImages : cName \in FormatNames(fmt))
              => (cCategory = "image" /\ Route(cCategory, cExt) = "image")
        /\ (\E fmt \in ReadmeNotebooks : cName \in FormatNames(fmt))
              => cCategory = "notebook"

(***************************************************************************)
(* Properties of extractPDF.                                               *)
(***************************************************************************)
\* the page markers among the chunks of a text, in order
RECURSIVE MarkersOf(_, _)
MarkersOf(text, n) ==
    IF text = <<>> THEN <<>>
    ELSE (IF \E i \in 1..n : Head(text) = PageMarker(i) THEN <<Head(text)>> ELSE <<>>)
         \o MarkersOf(Tail(text), n)

PDFLoadedOnce == numPages > 0

\* C8: for a PDF loaded with N pages, whichever pages fail, the returned
\* result has N pages numbered 1..N in order and its text holds the markers
\* of pages 1..N, each once, in ascending order.
PageOrder ==
    (Returned /\ PDFLoadedOnce) =>
        /\ result.pages # None
        /\ Len(result.pages[1]) = numPages
        /\ \A i \in 1..numPages : result.pages[1][i].pageNumber = i
        /\ MarkersOf(result.text, numPages) = [i \in 1..numPages |-> PageMarker(i)]

\* number of entries of a sequence equal to a value
Count(seq, v) == Cardinality({i \in 1..Len(seq) : seq[i] = v})

\* C9: a fault while reading page i stays with page i: page i gets the
\* unreadable placeholder and one warning naming it, every other page keeps
\* the text read for it, no error is recorded by the page loop, and the
\* returned status is partial.
PageFaultIsolated ==
    result.pages # None =>
        /\ pc \in {"pdf_page", "classify", "done"}
        /\ Len(result.pages[1]) = Len(pageEnv)
        /\ \A j \in 1..Len(pageEnv) :
              /\ result.pages[1][j].text =
                    IF pageEnv[j].failed THEN <<PAGE_UNREADABLE>>
                    ELSE Trim(PageText(pageEnv[j].items))
              /\ Count(result.warnings, PageWarning(j)) =
                    IF pageEnv[j].failed THEN 1 ELSE 0
        /\ pc = "pdf_page" => result.errors = <<>>
        /\ \A k \in 1..Len(result.errors) :
              \E fault \in Faults :
                 result.errors[k] = "PDF extraction failed: " \o ErrorMessage(fault)
        /\ (Returned /\ \E j \in 1..Len(pageEnv) : pageEnv[j].failed)
              => result.status = "partial"

\* C9 witness: report.pdf with two pages, the second one failing
PageFaultIsolatedWitness ==
    /\ Returned
    /\ numPages = 2
    /\ pageEnv = << [failed |-> FALSE, items |-> <<TextItem(<<"a">>, 10)>>],
                    [failed |-> TRUE, items |-> <<>>] >>
    /\ result.pages = Some(<< [pageNumber |-> 1, text |-> <<"a">>],
                             [pageNumber |-> 2, text |-> <<PAGE_UNREADABLE>>] >>)
    /\ result.warnings = <<PageWarning(2)>>
    /\ result.errors = <<>>
    /\ result.status = "partial"

\* C10: when extractPDF has ended, every loading task or document it opened
\* has been destroyed.
PDFReleased ==
    pc \in {"classify", "done"} => pdfTask \notin {"pending", "open"}

\* the errors the catch block of extractPDF can record
PDFErrors ==
    {"PDF extraction failed: " \o ErrorMessage(fault) : fault \in Faults \cup {TimedOut}}

\* extractPDF has ended without the load ever giving a document
PDFLoadLost == pdfTask # "none" /\ pc \in {"classify", "done"} /\ numPages = 0

\* C11: when the load loses the race against the timer or throws, extractPDF
\* records exactly one error, sets the text to the unreadable-PDF sentinel
\* and populates no pages; and whenever a "PDF extraction failed" error is
\* recorded, pages is not populated.
PDFLoadFailure ==
    /\ PDFLoadLost =>
          /\ Len(result.errors) = 1
          /\ result.errors[1] \in PDFErrors
          /\ result.text = <<PDF_UNREADABLE>>
          /\ result.pages = None
    /\ (\E k \in 1..Len(result.errors) : result.errors[k] \in PDFErrors)
          => result.pages = None

\* extractJSON has run on a content that JSON.parse accepts
ValidJSONExtracted ==
    /\ Returned
    /\ thrown = None
    /\ result.fileType = "JSON"
    /\ JSONParse(file.content) # None

\* C12: for a valid JSON content, parsing the returned text gives a value
\* deeply equal to the parse of the content, isValidJson is 1, no warning or
\* error is recorded, the status is success, and extracting the returned text
\* again gives the same text.
JSONRoundTrip ==
    ValidJSONExtracted =>
        /\ JSONParse(result.text) = JSONParse(file.content)
        /\ result.metadata["isValidJson"] = 1
        /\ result.warnings = <<>>
        /\ result.errors = <<>>
        /\ result.status = "success"
        /\ JSONExtracted(result, result.text, JSONParse(result.text)).text = result.text

\* the confidence-tier warnings, for any confidence
TierWarnings ==
    {VeryLowWarning(c) : c \in 0..MAX_CONFIDENCE}
    \cup {LowWarning(c) : c \in 0..MAX_CONFIDENCE}
    \cup {ModerateWarning(c) : c \in 0..MAX_CONFIDENCE}

\* C13: for a confidence c of 0..100, extractImage adds exactly one tier
\* warning when c < 75 and none when c >= 75: the very low one iff c < 30,
\* the low one iff 30 <= c < 50, the moderate one iff 50 <= c < 75.
ConfidenceTiers ==
    (Returned /\ result.confidence # None) =>
        LET c == result.confidence[1]
            tiers == {k \in 1..Len(result.warnings) : result.warnings[k] \in TierWarnings}
        IN /\ c \in 0..MAX_CONFIDENCE
           /\ Cardinality(tiers) = (IF c < 75 THEN 1 ELSE 0)
           /\ Count(result.warnings, VeryLowWarning(c)) = (IF c < 30 THEN 1 ELSE 0)
           /\ Count(result.warnings, LowWarning(c)) = (IF 30 <= c /\ c < 50 THEN 1 ELSE 0)
           /\ Count(result.warnings, ModerateWarning(c)) = (IF 50 <= c /\ c < 75 THEN 1 ELSE 0)

\* C13 witness: an image read with confidence 45, which gets the low warning
ConfidenceTiersWitness ==
    /\ Returned
    /\ result.confidence = Some(45)
    /\ result.warnings = <<LowWarning(45)>>
    /\ result.status = "partial"

(***************************************************************************)
(* Properties of extractUnknown.                                           *)
(***************************************************************************)
\* extractUnknown has run to its end
UnknownRan == pc \in {"classify", "done"} /\ result.category = "unknown"

\* the entries of an archive that are no directory and decode to some text
Recovered(entries) ==
    SelectSeq(entries, LAMBDA e : ~e.dir /\ e.content # None /\ e.content[1] # <<>>)

\* each recovered entry under its marker, the sections two newlines apart
RECURSIVE Sections(_)
Sections(entries) ==
    IF entries = <<>> THEN <<>>
    ELSE <<"=== " \o StrOf(Head(entries).path) \o " ===", "\n">> \o Head(entries).content[1]
         \o (IF Len(entries) > 1 THEN <<"\n", "\n">> ELSE <<>>)
         \o Sections(Tail(entries))

\* C14: for a file with the ZIP signature, when the archive opens and k >= 1
\* entries are recovered the text is exactly those entries under their
\* "=== path ===" markers and a warning reports k; when opening the archive
\* throws the text is the one of the earlier text step.
ZipRecovery ==
    (UnknownRan /\ HasZipSignature(file.content)) =>
        /\ (answer[1].kind = "archive opened" /\ Recovered(answer[1].entries) # <<>>) =>
              /\ result.text = Sections(Recovered(answer[1].entries))
              /\ result.warnings[Len(result.warnings)] =
                    "Extracted " \o ToString(Len(Recovered(answer[1].entries)))
                       \o " text file(s) from archive"
        /\ answer[1].kind = "archive failed" =>
              result.text = UnknownText(NoResult, file.content).text

\* C14 witness: an archive holding notes.txt = "hello"
ZipRecoveryWitness ==
    /\ Returned
    /\ HasZipSignature(file.content)
    /\ answer = Some(ArchiveOpened(<< ZipEntry(<<"n", "o", "t", "e", "s", ".", "t", "x", "t">>,
                                              FALSE, Some(<<"h", "e", "l", "l", "o">>)) >>))
    /\ result.text = <<"=== notes.txt ===", "\n", "h", "e", "l", "l", "o">>
    /\ result.warnings[Len(result.warnings)] = "Extracted 1 text file(s) from archive"

(***************************************************************************)
(* Properties of concurrent calls.                                         *)
(***************************************************************************)
\* the page loop of lines 124-161 over the answers of pdf.js, from page i
RECURSIVE PagesAlone(_, _, _, _)
PagesAlone(r, parts, pages, i) ==
    IF pages = <<>> THEN [result |-> r, textParts |-> parts]
    ELSE LET next == IF Head(pages).failed THEN PageFailed(r, parts, i)
                     ELSE PageRead(r, parts, i, Head(pages).items)
         IN PagesAlone(next.result, next.textParts, Tail(pages), i + 1)

\* the result extractText gives for a file when it runs alone and the file
\* reads and pdf.js answer as recorded in env
RunAlone(f, env) ==
    LET r0 == [NewResult(f) EXCEPT
                  !.warnings = HeadWarnings(NewResult(f).category, getFileExtension(f.name))]
        classified(r) == [r EXCEPT !.status = StatusOf(r)]
    IN IF Route(r0.category, getFileExtension(f.name)) = "pdf_read"
       THEN IF env.read # None THEN classified(PDFFailed(r0, env.read[1]))
            ELSE IF env.load # None THEN classified(PDFFailed(r0, env.load[1]))
            ELSE LET opened == [r0 EXCEPT !.metadata = SetMeta(@, "pageCount", Len(env.pages)),
                                          !.pages = Some(<<>>)]
                     read == PagesAlone(opened, <<>>, env.pages, 1)
                     joined == [read.result EXCEPT !.text = Join(read.textParts, <<"\n", "\n">>)]
                 IN IF env.destroy # None THEN classified(PDFFailed(joined, env.destroy[1]))
                    ELSE classified(joined)
       ELSE IF env.read # None THEN Caught(r0, env.read[1])
            ELSE classified([r0 EXCEPT !.text = f.content])

\* the fields of a result the comparison is about
Visible(r) == [r EXCEPT !.processingTime = 0]

\* C15: whatever the interleaving of the steps of the concurrent calls, the
\* result each call returns is the one it gives when run alone on its file
\* with the same answers of its reads and of pdf.js.
CallsIsolated ==
    \A i \in DOMAIN calls :
        calls[i].pc = "done" =>
            Visible(calls[i].result) = Visible(RunAlone(calls[i].file, calls[i].env))

\* C15 witness: a PDF call and a text call have both returned, the steps of
\* the text call having run while the PDF was between two pages
CallsIsolatedWitness ==
    /\ calls # NoCalls
    /\ calls[1].pc = "done" /\ calls[2].pc = "done"
    /\ calls[1].result.status = "partial"
    /\ Len(calls[1].env.pages) = 2
    /\ calls[1].env.pages[2].failed
    /\ calls[2].result.status = "success"
    /\ calls[2].result.text = <<"t", "2">>

(***************************************************************************)
(* Properties of the identifiers.                                          *)
(***************************************************************************)
PairwiseDistinct(entries) ==
    \A i, j \in 1..Len(entries) : i # j => entries[i].id # entries[j].id

\* C16: the ids of the results and of the queue entries are non-empty and
\* pairwise distinct, so the results list never holds two results with one
\* id and removing a result by its id removes exactly one result.
IdsUnique ==
    app # NoApp =>
        /\ \A i \in 1..Len(app.results) : app.results[i].id # <<>>
        /\ \A i \in 1..Len(app.processingFiles) : app.processingFiles[i].id # <<>>
        /\ PairwiseDistinct(app.results)
        /\ PairwiseDistinct(app.processingFiles)
        /\ app.removed <= 1

(***************************************************************************)
(* Properties of extractNotebook.                                          *)
(***************************************************************************)
\* extractNotebook has walked the cells of the notebook JSON.parse returned
NotebookWalked ==
    /\ Returned
    /\ result.category = "notebook"
    /\ answer # None
    /\ ~answer[1].isNull
    /\ answer[1].cells # None
    /\ \A k \in 1..Len(answer[1].cells[1]) : ~answer[1].cells[1][k].isNull

\* the first applicable of: the text field, the data['text/plain'] field, the
\* error line of an output with an ename
FirstApplicable(output) ==
    IF Truthy(output.text) THEN <<TextOf(output.text[1])>>
    ELSE IF output.data # None /\ Truthy(output.data[1]) THEN <<TextOf(output.data[1][1])>>
    ELSE IF output.ename # "" THEN << <<"[Error: " \o output.ename \o "] " \o output.evalue>> >>
    ELSE <<>>

RECURSIVE FirstApplicableOfAll(_)
FirstApplicableOfAll(outputs) ==
    IF outputs = <<>> THEN <<>>
    ELSE FirstApplicable(Head(outputs)) \o FirstApplicableOfAll(Tail(outputs))

\* the parts of the cells from number cellNum on, each output giving its
\* first applicable part
RECURSIVE ExpectedParts(_, _)
ExpectedParts(cells, cellNum) ==
    IF cells = <<>> THEN <<>>
    ELSE LET cell == Head(cells)
             cellType == IF cell.cell_type # "" THEN cell.cell_type ELSE "unknown"
         IN << <<"=== Cell " \o ToString(cellNum) \o " (" \o cellType \o ") ===">> >>
            \o (IF Truthy(cell.source) THEN <<TextOf(cell.source[1])>> ELSE <<>>)
            \o (IF cell.outputs # None /\ cell.outputs[1] # <<>>
                THEN << <<"\n--- Output ---">> >> \o FirstApplicableOfAll(cell.outputs[1])
                ELSE <<>>)
            \o << <<>> >>
            \o ExpectedParts(Tail(cells), cellNum + 1)

\* C17: every output of a notebook gives the first applicable of its text,
\* its data['text/plain'] and, when it has an ename, its error line; so an
\* output with an ename and a data object without 'text/plain' gives the
\* error line.
NotebookOutputs ==
    NotebookWalked =>
        result.text = Join(ExpectedParts(answer[1].cells[1], 1), <<"\n">>)

(***************************************************************************)
(* Properties of extractRTF.                                               *)
(***************************************************************************)
RTFRan == Returned /\ thrown = None /\ result.fileType = "RTF"

PAR_TOKEN == <<"\\", "p", "a", "r">>

\* the positions where a '\par' control word starts
ParTokens(content) ==
    {i \in 1..Len(content) :
        /\ StartsWith(SubSeq(content, i, Len(content)), PAR_TOKEN)
        /\ (i + 4 <= Len(content) => content[i + 4] \notin LowerSet)}

\* the paragraph characters before and after position i: the letters that
\* stand outside every control word
TextBefore(content, i) == {j \in 1..(i - 1) : content[j] \in LowerSet /\
                              \A k \in 1..j : content[k] # "\\"}
TextAfter(content, i) == {j \in (i + 4)..Len(content) : content[j] \in LowerSet /\
                              \A k \in (i + 4)..j : content[k] # "\\"}

\* the line of the text on which its character at position j stands
LineOf(text, j) == Cardinality({k \in 1..(j - 1) : text[k] = "\n"})

\* C18: extractRTF turns every '\par' token into a newline, so two paragraphs
\* separated by '\par' stand on different lines of the text.
RTFParagraphs ==
    RTFRan =>
        \A i \in ParTokens(file.content) :
            \A b \in TextBefore(file.content, i), a \in TextAfter(file.content, i) :
                \E m, n \in 1..Len(result.text) :
                    /\ result.text[m] = file.content[b]
                    /\ result.text[n] = file.content[a]
                    /\ LineOf(result.text, m) < LineOf(result.text, n)

(***************************************************************************)
(* Properties of extractHTML.                                              *)
(***************************************************************************)
HTMLRan == Returned /\ thrown = None /\ result.fileType \in {"HTML", "HTM"}

\* the pairs <<text, block>> of a text node with some content standing
\* directly before a block element with some content, under one parent of
\* the tree
RECURSIVE PrecedingPairs(_)
PrecedingPairs(node) ==
    LET kids == node.children
    IN { <<Trim(kids[k].content), kids[k + 1]>> : k \in
           {k \in 1..(Len(kids) - 1) :
               /\ kids[k].type = "text"
               /\ Trim(kids[k].content) # <<>>
               /\ kids[k + 1].type = "element"
               /\ kids[k + 1].tag \in BlockElements
               /\ Trim(extractTextFromNode(kids[k + 1])) # <<>>} }
       \cup UNION {PrecedingPairs(kids[k]) : k \in 1..Len(kids)}

\* whether the characters of part stand side by side in text
Occurs(part, text) ==
    \E p \in 0..(Len(text) - Len(part)) : SubSeq(text, p + 1, p + Len(part)) = part

\* C19: every block element gives a newline before and after its content, so
\* text directly before a block element under the same parent is separated
\* from the content of the block by a newline.
BlockNewlines ==
    HTMLRan =>
        \A doc \in HtmlDocuments :
            doc.content = file.content =>
                \A pair \in PrecedingPairs(RemoveScripts(doc.body)) :
                    Occurs(pair[1] \o <<"\n">>, result.text)

(***************************************************************************)
(* Properties of the text step of extractUnknown.                          *)
(***************************************************************************)
\* extractUnknown has returned, its reads succeeded and no archive entry
\* took the place of the text
TextStepStands ==
    /\ Returned
    /\ result.category = "unknown"
    /\ answer # None
    /\ \/ answer[1].kind \in {"no archive", "archive failed"}
       \/ answer[1].kind = "archive opened" /\ Recovered(answer[1].entries) = <<>>

BinaryWarning == "File appears to be binary - extracted readable portions only"
BinaryWarned == \E i \in 1..Len(result.warnings) : result.warnings[i] = BinaryWarning

\* the control characters of the contents other than tab, newline and
\* carriage return
ControlCharacters == {NUL_CHAR, "\f"}

\* whether more than a tenth of the first 1000 characters are of the set
OverTenth(content, set) ==
    LET n == IF Len(content) < 1000 THEN Len(content) ELSE 1000
    IN 10 * Cardinality({i \in 1..n : content[i] \in set}) > n

\* the outcome of the text step when the characters of the set are the ones
\* counted
FallbackOutcome(set) ==
    TextStepStands =>
        LET binary == OverTenth(file.content, set)
            remaining == Len(Readable(file.content))
        IN /\ BinaryWarned <=> binary
           /\ binary /\ remaining < 10 =>
                 /\ result.errors = <<"No readable text content found">>
                 /\ result.text = <<BINARY_UNREADABLE>>
           /\ binary /\ remaining >= 10 =>
                 /\ result.text = Readable(file.content)
                 /\ \A i \in 1..Len(result.text) : result.text[i] \notin ControlCharacters
                 /\ result.errors = <<>>
           /\ ~binary => result.text = file.content /\ result.errors = <<>>

OcrSucceeded == Returned /\ result.category = "image" /\ answer # None

\* the words of Tesseract's answer whose confidence is below 60
LowWords ==
    LET data == answer[1]
    IN IF data.words = None THEN <<>>
       ELSE SelectSeq(data.words[1], LAMBDA w : w.confidence < 60)

\* the warnings of the result that are neither a tier warning nor the
\* no-text or the garbage warning
WordWarningsOf(warnings) ==
    SelectSeq(warnings, LAMBDA w : w \notin TierWarnings \cup {NoTextWarning, GarbageWarning})

\* the first k words, each between double quotes, separated by ", "
Quoted(words, k) ==
    LET q(i) == "\"" \o StrOf(words[i].text) \o "\""
    IN IF k = 1 THEN q(1)
       ELSE IF k = 2 THEN q(1) \o ", " \o q(2)
       ELSE q(1) \o ", " \o q(2) \o ", " \o q(3)

\* C21: with n the number of words of confidence below 60, no word warning
\* is added when n = 0, exactly one quoting the first min(n, 3) such words
\* when 1 <= n <= 10, and exactly one giving the count n and no word when
\* n > 10, whatever the confidence tier.
LowWordWarning ==
    OcrSucceeded =>
        LET n == Len(LowWords)
            added == WordWarningsOf(result.warnings)
        IN /\ n = 0 => added = <<>>
           /\ (1 <= n /\ n <= 10) =>
                 added = <<ToString(n) \o " word(s) with low confidence: "
                           \o Quoted(LowWords, IF n < 3 THEN n ELSE 3)
                           \o (IF n > 3 THEN "..." ELSE "")>>
           /\ n > 10 =>
                 added = <<ToString(n)
                           \o " words with low confidence detected - consider using a higher quality image.">>

\* C21 witness: ten words of low confidence in an image of high confidence,
\* and eleven in an image of very low confidence
LowWordWarningWitness ==
    /\ OcrSucceeded
    /\ \/ Len(LowWords) = 10 /\ result.confidence = Some(80)
             /\ result.warnings = <<"10 word(s) with low confidence: \"a\"\", \"b\"\", \"c\"\"...">>
       \/ Len(LowWords) = 11 /\ result.confidence = Some(20)
             /\ Len(result.warnings) = 2


\* Tesseract recognized no text, or white space only
NothingRecognized == OcrSucceeded /\ Trim(answer[1].text) = <<>>

\* the sentinel has 79 characters, 62 of them letters or digits
SENTINEL_LENGTH == 79
SENTINEL_ALNUM == 62

\* C22: when the recognized text is empty or white space only, the text is
\* the '[NO TEXT DETECTED: ...]' sentinel, the explanatory warning is added
\* once, no error is added and the status is partial; the garbage check
\* (length > 5, alphanumeric ratio < 0.3, confidence < 60) reads the
\* sentinel, not the recognized text.
NoTextSentinel ==
    NothingRecognized =>
        /\ result.text = <<NO_TEXT_DETECTED>>
        /\ Count(result.warnings, NoTextWarning) = 1
        /\ result.errors = <<>>
        /\ result.status = "partial"
        /\ Count(result.warnings, GarbageWarning) =
              (IF /\ SENTINEL_LENGTH > 5
                  /\ 10 * SENTINEL_ALNUM < 3 * SENTINEL_LENGTH
                  /\ result.confidence[1] < 60
               THEN 1 ELSE 0)

\* C22 witness: seven characters of white space recognized with confidence
\* 10, a text the garbage check would flag
NoTextSentinelWitness ==
    /\ NothingRecognized
    /\ Len(answer[1].text) > 5
    /\ result.confidence = Some(10)
    /\ result.warnings = <<VeryLowWarning(10), NoTextWarning>>


\* extractJSON has run on a content JSON.parse rejects
InvalidJSONExtracted ==
    /\ Returned
    /\ thrown = None
    /\ result.fileType = "JSON"
    /\ JSONParse(file.content) = None

\* C23: for a .json file whose content is not valid JSON the text is the raw
\* content, exactly one validity warning and no error are recorded,
\* isValidJson is 0 and the status is partial.
InvalidJSONPassedThrough ==
    InvalidJSONExtracted =>
        /\ StrOf(result.text) = StrOf(file.content)
        /\ result.warnings = <<"File does not contain valid JSON">>
        /\ result.errors = <<>>
        /\ result.metadata["isValidJson"] = 0
        /\ result.status = "partial"

(***************************************************************************)
(* Properties of the service worker.                                       *)
(***************************************************************************)
WorkerRuns == sw # NoWorker

\* the URLs some cache holds a response for
Cached == sw.static \cup sw.dynamic

\* C24: the OCR language data is in a cache only if an ENABLE_OCR_OFFLINE
\* message was received before; the fetch listener never puts the response
\* for an OCR resource in a cache, and puts every other GET response of
\* status 200 in the dynamic cache when the resource is external and in the
\* static cache otherwise.
OcrCachedOnRequest ==
    WorkerRuns =>
        /\ (\E path \in OCR_RESOURCES : Resolve(path) \in Cached) => sw.received
        /\ sw.request # None =>
              LET r == sw.request[1]
              IN /\ isOcrResource(r.url) => r.cache = "none"
                 /\ (r.method = "GET" /\ r.outcome = 200 /\ ~isOcrResource(r.url)) =>
                       IF isExternalResource(r.url)
                       THEN r.cache = "dynamic" /\ r.url \in sw.dynamic
                       ELSE r.cache = "static" /\ r.url \in sw.static

(***************************************************************************)
(* Properties of the status of handled failures.                           *)
(***************************************************************************)
\* the sentinels the strategies store together with an error
UnreadableSentinels ==
    {PDF_UNREADABLE, DOCX_UNREADABLE, EXCEL_UNREADABLE, OCR_UNREADABLE,
     NOTEBOOK_UNREADABLE, BINARY_UNREADABLE, FILE_UNREADABLE}

\* C25: in every returned result the status error implies an empty text; a
\* failure that a strategy records as an error with an '[UNREADABLE: ...]'
\* sentinel is classified partial, never error.
ErrorMeansNoText ==
    Returned =>
        /\ result.status = "error" => result.text = <<>>
        /\ (Len(result.text) = 1 /\ result.text[1] \in UnreadableSentinels) =>
              /\ result.errors # <<>>
              /\ result.status = "partial"

\* C25 witness: an image whose OCR failed, returned as partial with the
\* sentinel and one error
ErrorMeansNoTextWitness ==
    /\ Returned
    /\ result.text = <<OCR_UNREADABLE>>
    /\ Len(result.errors) = 1
    /\ result.status = "partial"

(***************************************************************************)
(* Properties of the best-effort strategies.                               *)
(***************************************************************************)
\* the result is of a file of category unknown, or of a document with the
\* extension rtf or doc or with no strategy of its own
BestEffort ==
    \/ result.category = "unknown"
    \/ /\ result.category = "document"
       /\ StrOf(getFileExtension(result.fileName)) \notin
             {"pdf", "docx", "txt", "md", "markdown", "html", "htm"}

\* C26: for every file of category unknown and every document with the
\* extension rtf, doc or one without a strategy of its own, at least one
\* warning is recorded on every path, so the returned status is never
\* success.
BestEffortWarned ==
    (Returned /\ BestEffort) =>
        /\ result.warnings # <<>>
        /\ result.status # "success"


\* C26, amended: such a result holds at least one warning on every path on
\* which the file was read; when the read of an rtf file or of a document
\* without a strategy of its own fails, the result holds the error of the
\* catch block and no warning; the returned status is never success.
BestEffortNeverSuccess ==
    (Returned /\ BestEffort) =>
        /\ result.status # "success"
        /\ \/ result.warnings # <<>>
           \/ /\ thrown # None
              /\ result.category = "document"
              /\ StrOf(getFileExtension(result.fileName)) # "doc"
              /\ result.status = "error"

\* C26 witness: an rtf file that was read, returned as partial with the one
\* caveat of extractRTF
BestEffortNeverSuccessWitness ==
    /\ Returned
    /\ result.fileType = "RTF"
    /\ thrown = None
    /\ result.text # <<>>
    /\ result.warnings = <<"RTF extraction is best-effort. Some formatting may be lost.">>
    /\ result.status = "partial"

(***************************************************************************)
(* Properties of the timer of extractPDF.                                  *)
(***************************************************************************)
TimedOutError == "PDF extraction failed: PDF loading timed out"

\* C27: when the load settles the race first, the later firing of the timer
\* changes nothing: no error is appended, text and pages stay as they are
\* and no rejection travels anywhere, whether the timer fires during the
\* page loop or after extractText has returned; a result whose pages were
\* read never holds the time-out error.
LateTimerHarmless ==
    /\ [](Returned /\ result.pages # None => Count(result.errors, TimedOutError) = 0)
    /\ [][(timer = "armed" /\ timer' = "fired" /\ pc # "pdf_race") =>
             /\ result' = result
             /\ thrown' = thrown
             /\ pc' = pc
             /\ textParts' = textParts
             /\ pageIdx' = pageIdx]_vars

\* C27 witness: the timer has fired after a two-page document was loaded and
\* read, and the result is returned as success with both pages
LateTimerHarmlessWitness ==
    /\ Returned
    /\ timer = "fired"
    /\ result.pages # None
    /\ Len(result.pages[1]) = 2
    /\ result.errors = <<>>
    /\ result.status = "success"


(***************************************************************************)
(* Properties of handleFilesSelected.                                      *)
(***************************************************************************)
\* the queue entries of the file with this key
EntriesOf(w, key) == SelectSeq(w.processingFiles, LAMBDA pf : pf.key = key)

\* the call of extractText for the file has settled and handleFilesSelected
\* has not gone on yet
Settled(key) ==
    /\ app # NoApp
    /\ key <= Len(app.files)
    /\ app.files[key].call \in {"resolved", "rejected"}

\* handleFilesSelected is through with the file
Through(key) ==
    /\ app # NoApp
    /\ key <= Len(app.files)
    /\ app.files[key].call = "handled"
    /\ app.files[key].interval = "cleared"
    /\ app.files[key].listed = 1
    /\ EntriesOf(app, key) = <<>>

QueueKept ==
    app # NoApp =>
        /\ \A key \in 1..Len(app.files) :
              /\ Len(EntriesOf(app, key)) <= 1
              /\ \A k \in 1..Len(EntriesOf(app, key)) :
                    EntriesOf(app, key)[k].progress \in 0..PROGRESS_CAP
              /\ app.files[key].listed = (IF app.files[key].call = "handled" THEN 1 ELSE 0)
              /\ app.files[key].call = "handled" => Through(key)
              /\ app.files[key].interval = "set" <=>
                     app.files[key].call \in {"pending", "resolved", "rejected"}
        /\ (\A key \in 1..Len(app.files) : app.files[key].call = "handled") =>
               app.processingFiles = <<>>

QueueStep ==
    app # NoApp =>
        /\ \A key \in 1..Len(app'.files) :
              key > Len(app.files) =>
                  /\ Len(EntriesOf(app', key)) = 1
                  /\ EntriesOf(app', key)[1].progress = 0
        /\ \A key \in 1..Len(app.files) :
              /\ EntriesOf(app, key) # <<>> /\ EntriesOf(app', key) # <<>> =>
                     EntriesOf(app', key)[1].progress >= EntriesOf(app, key)[1].progress
              /\ app'.files[key].listed # app.files[key].listed =>
                     /\ Settled(key)
                     /\ Len(app'.results) = Len(app.results) + 1
                     /\ Tail(app'.results) = app.results
                     /\ Head(app'.results).key = key
                     /\ app.files[key].call = "rejected" => Head(app'.results).status = "error"
        /\ Len(app'.results) > Len(app.results) =>
               \E key \in 1..Len(app.files) : app'.files[key].listed # app.files[key].listed

\* C28: every file passed to handleFilesSelected gets one queue entry; once
\* its call of extractText has settled the entry is removed, its interval
\* is cleared and exactly one result for it is put in front of the results
\* (an error result when the call rejected), however the batches interleave;
\* the progress of an entry never decreases and never exceeds 90, and the
\* queue is empty once every file is through.
FilesProcessed ==
    /\ []QueueKept
    /\ [][QueueStep]_vars
    /\ \A key \in 1..MaxEntries : Settled(key) ~> Through(key)

\* the first file of a batch of two was rejected and is listed as an error,
\* the second is being extracted and its progress stands at the cap
FilesProcessedWitness ==
    /\ app # NoApp
    /\ Len(app.files) = 2
    /\ Len(app.batches) = 1
    /\ Through(1)
    /\ app.files[2].call = "pending"
    /\ Len(app.results) = 1
    /\ app.results[1].status = "error"
    /\ app.results[1].key = 1
    /\ Len(app.processingFiles) = 1
    /\ app.processingFiles[1].progress = PROGRESS_CAP


(***************************************************************************)
(* Properties of the search state.                                         *)
(***************************************************************************)
\* C29: whenever there are matches the active index lies in
\* 0..totalMatches-1, whatever searches, navigations, filter changes,
\* removals, clearings and arrivals of results came before.
MatchIndexInRange ==
    app # NoApp /\ totalMatches(app) > 0 =>
        app.currentMatchIndex \in 0..(totalMatches(app) - 1)


(***************************************************************************)
(* Properties of the offline toggles.                                      *)
(***************************************************************************)
\* the toggle of part_001 shows its enabled state (lines 171 and 190) and
\* has stored its flag
OcrShownEnabled ==
    /\ ~sw.ocr.isLoading
    /\ sw.ocr.isOcrEnabled
    /\ sw.ocr.stored

\* the toggle of OfflineModeToggle.tsx shows its enabled state (lines 106
\* and 125) and has stored its flag
ModeShownEnabled ==
    /\ ~sw.mode.isLoading
    /\ sw.mode.isOfflineEnabled /\ sw.mode.isCached
    /\ sw.mode.stored

\* the worker has handled an enable message and the language data is in
\* its static cache
OcrDataCached ==
    /\ sw.received
    /\ \A path \in OCR_RESOURCES : Resolve(path) \in sw.static

\* C30: whenever an offline toggle shows its enabled state, with its flag
\* stored, the worker has received an ENABLE_OCR_OFFLINE message and
\* /tessdata/eng.traineddata is in its static cache.
ToggleTruthful ==
    sw # NoWorker /\ (OcrShownEnabled \/ ModeShownEnabled) => OcrDataCached

====
